---------------------------- MODULE Spec2Model ----------------------------
(***************************************************************************)
(* A model of the mock-data generator of src/src/services/mockService.ts   *)
(* (class MockDataGenerator).  generateMockData builds config.recordCount  *)
(* records; every record gets one property per schema field, whose value   *)
(* is null (null injection) or the result of generateValue.               *)
(*                                                                         *)
(* JavaScript values are records tagged by k:                              *)
(*   [k |-> "null"]   [k |-> "boolean", b]   [k |-> "number", n, d]        *)
(*   [k |-> "string", s]   [k |-> "array", items]                          *)
(*   [k |-> "object", keys, vals, proto]                                   *)
(* A number is the rational n / d (d a power of ten).  An object keeps its *)
(* own enumerable string keys in the order Object.keys / JSON.stringify    *)
(* list them.                                                              *)
(*                                                                         *)
(* Math.random() is a process-wide pseudo-random generator.  The model's   *)
(* generator has the state rng = [x, d]: a call returns x / RandDen and    *)
(* moves x to (x + d) % RandDen, so a run of the program sees one of the   *)
(* RandDen * RandDen streams x, x + d, x + 2d, ... (mod RandDen).  Every   *)
(* generator takes the generator state s at the start of the record and    *)
(* the number p of the next draw, and returns [thrown, v, p]: what it      *)
(* threw ("none" when it returned), the value returned and the number of   *)
(* the draw after its own.                                                 *)
(*                                                                         *)
(* The later sections model the server of src/src/index.tsx: the route     *)
(* POST /api/generate, which calls the generator, and, over the tables of  *)
(* src/src/database.ts and the sessions of src/src/auth.ts, the project    *)
(* routes and the mock route, whose async handlers interleave at their     *)
(* awaits.                                                                 *)
(***************************************************************************)
EXTENDS Integers, Sequences, FiniteSets, TLC

VARIABLES
    schema,   \* the Schema passed to generateMockData
    config,   \* the GenerationConfig passed to generateMockData
    tz,       \* minutes the server's local time is ahead of UTC
    rng,      \* the state of Math.random()
    data,     \* generateMockData's array of records
    i,        \* generateMockData's loop counter
    pc,       \* "loop", "returned" or "thrown" ("idle": no call made yet)
    calls,    \* the calls made on mockService so far, the current one included
    request,  \* the request POST /api/generate is handling: [n, body, phase]
    responses,\* the responses of POST /api/generate so far, oldest first
    sessions, \* the rows of table sessions
    revoked,  \* the tokens that were logged out (history)
    projects, \* the rows of table projects
    handlers  \* the requests to the project and mock routes: one record each

generatorVars == <<schema, config, tz, rng, data, i, pc, calls>>
generateVars == <<request, responses>>
storeVars == <<sessions, revoked, projects, handlers>>
vars == <<schema, config, tz, rng, data, i, pc, calls,
          request, responses, sessions, revoked, projects, handlers>>

(***************************************************************************)
(* Bounds of the model.                                                    *)
(***************************************************************************)
RandDen == 3        \* Math.random() returns one of 0/RandDen .. (RandDen-1)/RandDen
MaxCount == 2       \* largest config.recordCount
MaxIndexKey == 9    \* largest field name tried as an integer index key

(***************************************************************************)
(* JavaScript values.                                                      *)
(***************************************************************************)
Null == [k |-> "null"]
Bool(b) == [k |-> "boolean", b |-> b]
Num(n, d) == [k |-> "number", n |-> n, d |-> d]
Str(s) == [k |-> "string", s |-> s]
Arr(items) == [k |-> "array", items |-> items]
ObjectPrototype == [k |-> "Object.prototype"]
EmptyObject == [k |-> "object", keys |-> <<>>, vals |-> <<>>, proto |-> ObjectPrototype]

Returned(v, p) == [thrown |-> "none", v |-> v, p |-> p]
Thrown(e, p) == [thrown |-> e, v |-> Null, p |-> p]

\* The p-th value Math.random() returns, as the numerator k of k / RandDen.
Draw(s, p) == (s.x + (p - 1) * s.d) % RandDen

\* The generator after the draws before draw p.
Advance(s, p) == [s EXCEPT !.x = Draw(s, p)]

\* Math.floor(Math.random() * n) for the draw k / RandDen.
FloorMul(k, n) == (k * n) \div RandDen

RECURSIVE Pow10(_)
Pow10(e) == IF e <= 0 THEN 1 ELSE 10 * Pow10(e - 1)

\* The integer nearest to a / b (b > 0), a tie going away from zero: the digits
\* Number.prototype.toFixed keeps.
RoundHalfAway(a, b) ==
    IF a >= 0 THEN (2 * a + b) \div (2 * b) ELSE -((2 * (-a) + b) \div (2 * b))

\* Math.round(a / b) (b > 0): floor(a / b + 1/2), a tie going up.
MathRound(a, b) == (2 * a + b) \div (2 * b)

\* c?.key: whether the property is there at all.
Has(c, key) == key \in DOMAIN c

\* c?.key || dflt for a numeric property: 0 is falsy, like undefined.
OrDefault(c, key, dflt) == IF Has(c, key) /\ c[key] # 0 THEN c[key] ELSE dflt

\* Truthiness of c?.key for a numeric property and for a string property.
TruthyNum(c, key) == Has(c, key) /\ c[key] # 0
TruthyStr(c, key) == Has(c, key) /\ c[key] # ""

(***************************************************************************)
(* Property assignment obj[name] = v on an object made by {}.              *)
(*  - "__proto__" is the accessor of Object.prototype: while the object    *)
(*    still inherits from Object.prototype the assignment makes no own     *)
(*    property; it replaces the prototype when v is an object or null and  *)
(*    does nothing otherwise.                                              *)
(*  - an existing key keeps its place and takes the new value.             *)
(*  - a new key that is a canonical array index ("0", "1", ...) goes among *)
(*    the index keys in ascending numeric order, before all other keys;    *)
(*    any other new key goes last.                                         *)
(***************************************************************************)
IsArrayIndex(name) == \E n \in 0..MaxIndexKey : ToString(n) = name
IndexOf(name) == CHOOSE n \in 0..MaxIndexKey : ToString(n) = name

KeyPos(obj, name) ==
    IF \E j \in 1..Len(obj.keys) : obj.keys[j] = name
    THEN CHOOSE j \in 1..Len(obj.keys) : obj.keys[j] = name
    ELSE 0

\* Number of own keys that enumerate before the new key `name`.
KeysBefore(obj, name) ==
    IF IsArrayIndex(name)
    THEN Cardinality({j \in 1..Len(obj.keys) :
            IsArrayIndex(obj.keys[j]) /\ IndexOf(obj.keys[j]) < IndexOf(name)})
    ELSE Len(obj.keys)

InsertAt(seq, n, e) == SubSeq(seq, 1, n) \o <<e>> \o SubSeq(seq, n + 1, Len(seq))

InheritsObjectPrototype(obj) == obj.proto # Null

DefineOwn(obj, name, v) ==
    IF KeyPos(obj, name) # 0
    THEN [obj EXCEPT !.vals[KeyPos(obj, name)] = v]
    ELSE [obj EXCEPT !.keys = InsertAt(obj.keys, KeysBefore(obj, name), name),
                     !.vals = InsertAt(obj.vals, KeysBefore(obj, name), v)]

PropSet(obj, name, v) ==
    IF name = "__proto__" /\ KeyPos(obj, name) = 0 /\ InheritsObjectPrototype(obj)
    THEN IF v.k \in {"object", "array", "null"}
         THEN [obj EXCEPT !.proto = v]
         ELSE obj
    ELSE DefineOwn(obj, name, v)


(***************************************************************************)
(* String helpers.                                                         *)
(***************************************************************************)
RECURSIVE Repeat(_, _)
Repeat(ch, n) == IF n <= 0 THEN "" ELSE ch \o Repeat(ch, n - 1)

\* str.padEnd(n, fill) for a one-character fill.
PadEnd(str, n, fill) == str \o Repeat(fill, n - Len(str))

Clamp(x, lo, hi) == IF x < lo THEN lo ELSE IF x > hi THEN hi ELSE x

\* str.substring(0, end): end is clamped to 0..str.length.
Substring0(str, end) == SubSeq(str, 1, Clamp(end, 0, Len(str)))

\* arr[Math.floor(Math.random() * arr.length)] for the draw k / RandDen.
Pick(arr, k) == arr[FloorMul(k, Len(arr)) + 1]

(***************************************************************************)
(* generateString                                                          *)
(***************************************************************************)
adjectives == <<"Beautiful", "Smart", "Fast", "Creative", "Modern", "Classic", "Premium", "Basic">>
nouns == <<"Product", "Service", "Solution", "Platform", "System", "Application", "Tool", "Framework">>

Phrase(s, p) == Pick(adjectives, Draw(s, p)) \o " " \o Pick(nouns, Draw(s, p + 1))

\* As PadIfShort, but padding at the start (padStart).
PadStartIfShort(c, result) ==
    IF TruthyNum(c, "minLength") /\ Len(result) < c.minLength
    THEN Repeat("x", c.minLength - Len(result)) \o result
    ELSE result

PadIfShort(c, result) ==
    IF TruthyNum(c, "minLength") /\ Len(result) < c.minLength
    THEN PadEnd(result, c.minLength, "x")
    ELSE result

TruncateIfLong(c, result) ==
    IF TruthyNum(c, "maxLength") /\ Len(result) > c.maxLength
    THEN Substring0(result, c.maxLength)
    ELSE result

generateString(c, s, p) ==
    Returned(Str(TruncateIfLong(c, PadIfShort(c, Phrase(s, p)))), p + 2)

(***************************************************************************)
(* generateNumber: value = Math.random() * (max - min) + min is the        *)
(* rational (k * (max - min) + min * RandDen) / RandDen; toFixed(decimal)  *)
(* throws a RangeError unless 0 <= decimal <= 100.                         *)
(***************************************************************************)
NumberDefaultMin == 0
NumberDefaultMax == 100
NumberDefaultDecimal == 0
ToFixedMaxDigits == 100

Interpolate(k, lo, hi) == k * (hi - lo) + lo * RandDen

ToFixedThrows(decimal) == decimal < 0 \/ decimal > ToFixedMaxDigits

ToFixed(a, b, decimal) == Num(RoundHalfAway(a * Pow10(decimal), b), Pow10(decimal))

NumberMin(c) == OrDefault(c, "min", NumberDefaultMin)
NumberMax(c) == OrDefault(c, "max", NumberDefaultMax)
NumberDecimal(c) == OrDefault(c, "decimal", NumberDefaultDecimal)

generateNumber(c, s, p) ==
    IF ToFixedThrows(NumberDecimal(c))
    THEN Thrown("RangeError", p + 1)
    ELSE Returned(ToFixed(Interpolate(Draw(s, p), NumberMin(c), NumberMax(c)),
                          RandDen, NumberDecimal(c)), p + 1)

(***************************************************************************)
(* generatePrice                                                           *)
(***************************************************************************)
PriceDefaultMin == 10000
PriceDefaultMax == 5000000

PriceMin(c) == OrDefault(c, "min", PriceDefaultMin)
PriceMax(c) == OrDefault(c, "max", PriceDefaultMax)

generatePrice(c, s, p) ==
    Returned(Num(MathRound(Interpolate(Draw(s, p), PriceMin(c), PriceMax(c)), RandDen), 1),
             p + 1)

(***************************************************************************)
(* generateValue for 'boolean': Math.random() > 0.5                        *)
(***************************************************************************)
generateBoolean(s, p) == Returned(Bool(2 * Draw(s, p) > RandDen), p + 1)

(***************************************************************************)
(* generateUUID: every x and y of the template is replaced by one hex      *)
(* digit, each from its own draw r = Math.random() * 16 | 0.               *)
(***************************************************************************)
UUIDTemplate == "xxxxxxxx-xxxx-4xxx-yxxx-xxxxxxxxxxxx"
HexDigits == "0123456789abcdef"

Hex(v) == SubSeq(HexDigits, v + 1, v + 1)

\* As UUIDChar, but replacing y like x, without the variant bits.
UUIDCharNoVariant(c, k) ==
    IF c \in {"x", "y"} THEN Hex(FloorMul(k, 16)) ELSE c

UUIDChar(c, k) ==
    IF c = "x" THEN Hex(FloorMul(k, 16))
    ELSE IF c = "y" THEN Hex((FloorMul(k, 16) % 4) + 8)
    ELSE c

RECURSIVE UUIDFrom(_, _, _)
UUIDFrom(j, s, p) ==
    IF j > Len(UUIDTemplate) THEN ""
    ELSE LET c == SubSeq(UUIDTemplate, j, j)
         IN  UUIDChar(c, Draw(s, p)) \o
             UUIDFrom(j + 1, s, IF c \in {"x", "y"} THEN p + 1 ELSE p)

UUIDDraws == Cardinality({j \in 1..Len(UUIDTemplate) : SubSeq(UUIDTemplate, j, j) \in {"x", "y"}})

generateUUID(s, p) == Returned(Str(UUIDFrom(1, s, p)), p + UUIDDraws)

(***************************************************************************)
(* generateEmail, generatePersonName, generateProductName,                 *)
(* generateAddress, generateImageUrl                                       *)
(***************************************************************************)
domains == <<"gmail.com", "yahoo.com", "hotmail.com", "outlook.com", "company.com">>
names == <<"john.doe", "jane.smith", "user123", "admin", "contact">>

generateEmail(s, p) ==
    Returned(Str(Pick(names, Draw(s, p)) \o ToString(FloorMul(Draw(s, p + 1), 100))
                 \o "@" \o Pick(domains, Draw(s, p + 2))), p + 3)

firstNames == <<"John", "Jane", "Michael", "Sarah", "David", "Emily", "Robert", "Lisa">>
lastNames == <<"Smith", "Johnson", "Williams", "Brown", "Jones", "Garcia", "Miller", "Davis">>

generatePersonName(s, p) ==
    Returned(Str(Pick(firstNames, Draw(s, p)) \o " " \o Pick(lastNames, Draw(s, p + 1))), p + 2)

products == <<"iPhone 15", "Samsung Galaxy S24", "MacBook Pro", "iPad Air", "AirPods Pro",
              "Apple Watch", "Dell XPS", "ThinkPad X1">>

generateProductName(s, p) == Returned(Str(Pick(products, Draw(s, p))), p + 1)

streets == <<"Main St", "Oak Ave", "Park Blvd", "Elm St", "Pine Rd">>
cities == <<"New York", "Los Angeles", "Chicago", "Houston", "Phoenix">>
states == <<"NY", "CA", "IL", "TX", "AZ">>

generateAddress(s, p) ==
    Returned(Str(ToString(FloorMul(Draw(s, p), 9999) + 1) \o " " \o Pick(streets, Draw(s, p + 1))
                 \o ", " \o Pick(cities, Draw(s, p + 2)) \o ", " \o Pick(states, Draw(s, p + 3))
                 \o " " \o ToString(FloorMul(Draw(s, p + 4), 90000) + 10000)), p + 5)

widths == <<200, 400, 600, 800>>
heights == <<200, 300, 400, 600>>
categories == <<"nature", "people", "technology", "animals", "food">>

generateImageUrl(s, p) ==
    Returned(Str("https://picsum.photos/" \o ToString(Pick(widths, Draw(s, p))) \o "/"
                 \o ToString(Pick(heights, Draw(s, p + 1))) \o "?category="
                 \o Pick(categories, Draw(s, p + 2))), p + 3)

(***************************************************************************)
(* generateParagraph                                                       *)
(***************************************************************************)
sentences == <<
    "This innovative solution transforms the way businesses operate in the digital age.",
    "Our cutting-edge technology provides unparalleled performance and reliability.",
    "Experience the future of productivity with our comprehensive platform.",
    "This revolutionary approach delivers exceptional results for modern enterprises.",
    "Discover how our advanced features streamline your workflow and boost efficiency.">>

DefaultSentenceCount == 3

Max(a, b) == IF a > b THEN a ELSE b
RECURSIVE SetMax(_)
SetMax(S) == IF S = {} THEN 0 ELSE LET x == CHOOSE x \in S : TRUE IN Max(x, SetMax(S \ {x}))

\* As sentenceCount, but falling back on minLength when minWords is falsy.
sentenceCountOrLength(c) ==
    IF TruthyNum(c, "minWords") THEN Max(1, c.minWords \div 10)
    ELSE IF TruthyNum(c, "minLength") THEN Max(1, c.minLength \div 10)
    ELSE DefaultSentenceCount

sentenceCount(c) ==
    IF TruthyNum(c, "minWords") THEN Max(1, c.minWords \div 10) ELSE DefaultSentenceCount

\* selectedSentences.join(' ') for sentences j..n, drawn at p, p + 1, ...
RECURSIVE JoinSentences(_, _, _, _)
JoinSentences(j, n, s, p) ==
    IF j > n THEN ""
    ELSE (IF j > 1 THEN " " ELSE "") \o Pick(sentences, Draw(s, p))
         \o JoinSentences(j + 1, n, s, p + 1)

generateParagraph(c, s, p) ==
    Returned(Str(JoinSentences(1, sentenceCount(c), s, p)), p + Max(0, sentenceCount(c)))

(***************************************************************************)
(* generateDate.  Time is counted in milliseconds from                     *)
(* 2020-01-01T00:00:00.000Z; a Date is [valid, t], valid = FALSE being the *)
(* Invalid Date (time value NaN).                                          *)
(***************************************************************************)
NowDay == 3         \* new Date() falls at noon UTC of day NowDay (day 0 = 2020-01-01)

MsPerMinute == 60 * 1000
MsPerHour == 60 * MsPerMinute
MsPerDay == 24 * MsPerHour

Now == NowDay * MsPerDay + MsPerDay \div 2

InvalidDate == [valid |-> FALSE, t |-> 0]
DateAt(t) == [valid |-> TRUE, t |-> t]

Digits == "0123456789"
IsDigit(ch) == \E n \in 0..9 : SubSeq(Digits, n + 1, n + 1) = ch
DigitVal(ch) == CHOOSE n \in 0..9 : SubSeq(Digits, n + 1, n + 1) = ch

\* new Date(str) for the date-only form "2020-01-DD" (UTC midnight of that
\* day); every other string of the model is unparseable.
DateParse(str) ==
    IF /\ Len(str) = 10
       /\ SubSeq(str, 1, 8) = "2020-01-"
       /\ IsDigit(SubSeq(str, 9, 9)) /\ IsDigit(SubSeq(str, 10, 10))
       /\ 10 * DigitVal(SubSeq(str, 9, 9)) + DigitVal(SubSeq(str, 10, 10)) \in 1..31
    THEN DateAt((10 * DigitVal(SubSeq(str, 9, 9)) + DigitVal(SubSeq(str, 10, 10)) - 1) * MsPerDay)
    ELSE InvalidDate

\* new Date(2020, 0, 1): midnight of 2020-01-01 in the local time zone, which is
\* zone minutes ahead of UTC.
LocalMidnight2020(zone) == DateAt(0 - zone * MsPerMinute)

Pad2(n) == IF n < 10 THEN "0" \o ToString(n) ELSE ToString(n)
Pad3(n) == IF n < 10 THEN "00" \o ToString(n) ELSE IF n < 100 THEN "0" \o ToString(n) ELSE ToString(n)

\* The YYYY-MM-DD of a time within December 2019 and January 2020.
IsoDatePart(t) ==
    IF t < 0 THEN "2019-12-" \o Pad2(32 + t \div MsPerDay)
             ELSE "2020-01-" \o Pad2(1 + t \div MsPerDay)

IsoTimePart(t) ==
    Pad2((t % MsPerDay) \div MsPerHour) \o ":" \o Pad2((t % MsPerHour) \div MsPerMinute)
    \o ":" \o Pad2((t % MsPerMinute) \div 1000) \o "." \o Pad3(t % 1000)

toISOString(t) == IsoDatePart(t) \o "T" \o IsoTimePart(t) \o "Z"

startDate(c, zone) ==
    IF TruthyStr(c, "startDate") THEN DateParse(c.startDate) ELSE LocalMidnight2020(zone)
endDate(c) ==
    IF TruthyStr(c, "endDate") THEN DateParse(c.endDate) ELSE DateAt(Now)

\* new Date(start + Math.random() * (end - start)): the time value is cut to a
\* whole millisecond; NaN (either bound invalid) makes the Invalid Date.
RandomDate(start, end, k) ==
    IF start.valid /\ end.valid
    THEN DateAt(Interpolate(k, start.t, end.t) \div RandDen)
    ELSE InvalidDate

generateDate(c, zone, s, p) ==
    LET date == RandomDate(startDate(c, zone), endDate(c), Draw(s, p))
    IN  IF ~date.valid
        THEN Thrown("RangeError", p + 1)
        ELSE IF TruthyStr(c, "format")
             THEN Returned(Str(IsoDatePart(date.t)), p + 1)
             ELSE Returned(Str(toISOString(date.t)), p + 1)

(***************************************************************************)
(* generateValue, generateObject, generateArray.                           *)
(* A field is [name, type, constraints, nestedSchema]; constraints is a    *)
(* record holding the declared constraints only (none: <<>>);              *)
(* nestedSchema is [kind |-> "undefined"], [kind |-> "list", fields] or    *)
(* [kind |-> "object"], a value that is not an array (such as {}).         *)
(***************************************************************************)
DataType == {"string", "number", "boolean", "object", "array", "person_name", "product_name",
             "address", "email", "image_url", "paragraph", "uuid", "date", "price"}

NoNested == [kind |-> "undefined"]
NestedList(fields) == [kind |-> "list", fields |-> fields]
NestedNonList == [kind |-> "object"]
EmptyList == NestedList(<<>>)

\* nestedSchema || []
NestedOrEmpty(ns) == IF ns.kind = "undefined" THEN EmptyList ELSE ns

ArrayDefaultMinItems == 1
ArrayDefaultMaxItems == 5

minItems(c) == OrDefault(c, "minItems", ArrayDefaultMinItems)
maxItems(c) == OrDefault(c, "maxItems", ArrayDefaultMaxItems)
itemCount(c, k) == FloorMul(k, maxItems(c) - minItems(c) + 1) + minItems(c)

\* The default branch of generateValue's switch: return null.
unknownTypeThrows(p) == Thrown("TypeError", p)
unknownType(p) == Returned(Null, p)

RECURSIVE generateValue(_, _, _, _)
RECURSIVE ObjectFrom(_, _, _, _, _, _)
RECURSIVE ArrayFrom(_, _, _, _, _, _, _)
RECURSIVE RecordFrom(_, _, _, _, _, _, _)

\* fields.forEach(field => obj[field.name] = generateValue(field)), from field j on.
ObjectFrom(fields, j, obj, zone, s, p) ==
    IF j > Len(fields) THEN Returned(obj, p)
    ELSE LET r == generateValue(fields[j], zone, s, p)
         IN  IF r.thrown # "none" THEN r
             ELSE ObjectFrom(fields, j + 1, PropSet(obj, fields[j].name, r.v), zone, s, r.p)

\* As generateObject, but with a depth cap: the nested fields are generated
\* without their own nestedSchema.
generateObjectCapped(ns, zone, s, p) ==
    IF ns.kind = "list"
    THEN ObjectFrom([j \in 1..Len(ns.fields) |-> [ns.fields[j] EXCEPT !.nestedSchema = NoNested]],
                    1, EmptyObject, zone, s, p)
    ELSE Thrown("TypeError", p)

\* As generateObject, but building the object the way generateMockData builds
\* a record with includeNulls on: each nested field may be replaced by null.
generateObjectWithNulls(ns, zone, s, p) ==
    IF ns.kind = "list"
    THEN RecordFrom(ns.fields, 1, EmptyObject, [includeNulls |-> TRUE], zone, s, p)
    ELSE Thrown("TypeError", p)

\* A value without forEach makes fields.forEach(...) a TypeError.
generateObject(ns, zone, s, p) ==
    IF ns.kind = "list"
    THEN ObjectFrom(ns.fields, 1, EmptyObject, zone, s, p)
    ELSE Thrown("TypeError", p)

\* for (let i = 0; i < itemCount; i++) array.push(...), from item j on.
ArrayFrom(ns, j, n, items, zone, s, p) ==
    IF j >= n THEN Returned(Arr(items), p)
    ELSE LET r == IF ns.kind = "list" /\ Len(ns.fields) = 1
                  THEN generateValue(ns.fields[1], zone, s, p)
                  ELSE generateObject(ns, zone, s, p)
         IN  IF r.thrown # "none" THEN r
             ELSE ArrayFrom(ns, j + 1, n, Append(items, r.v), zone, s, r.p)

\* As generateArray, but allocating the array up front (new Array(itemCount)),
\* which throws for a negative length.
generateArrayPreallocated(ns, c, zone, s, p) ==
    IF itemCount(c, Draw(s, p)) < 0
    THEN Thrown("RangeError", p + 1)
    ELSE ArrayFrom(ns, 0, itemCount(c, Draw(s, p)), <<>>, zone, s, p + 1)

generateArray(ns, c, zone, s, p) ==
    ArrayFrom(ns, 0, itemCount(c, Draw(s, p)), <<>>, zone, s, p + 1)

generateValue(field, zone, s, p) ==
    CASE field.type = "string" -> generateString(field.constraints, s, p)
      [] field.type = "number" -> generateNumber(field.constraints, s, p)
      [] field.type = "boolean" -> generateBoolean(s, p)
      [] field.type = "uuid" -> generateUUID(s, p)
      [] field.type = "date" -> generateDate(field.constraints, zone, s, p)
      [] field.type = "email" -> generateEmail(s, p)
      [] field.type = "person_name" -> generatePersonName(s, p)
      [] field.type = "product_name" -> generateProductName(s, p)
      [] field.type = "address" -> generateAddress(s, p)
      [] field.type = "image_url" -> generateImageUrl(s, p)
      [] field.type = "paragraph" -> generateParagraph(field.constraints, s, p)
      [] field.type = "price" -> generatePrice(field.constraints, s, p)
      [] field.type = "object" -> generateObject(NestedOrEmpty(field.nestedSchema), zone, s, p)
      [] field.type = "array" ->
            generateArray(NestedOrEmpty(field.nestedSchema), field.constraints, zone, s, p)
      [] OTHER -> unknownType(p)

(***************************************************************************)
(* generateMockData: one record of the loop.                               *)
(***************************************************************************)
includeNulls(cfg) == Has(cfg, "includeNulls") /\ cfg.includeNulls

\* config.includeNulls && Math.random() < 0.1: the draw is made only when
\* includeNulls is truthy.
InjectNullAlways(cfg, s, p) == 10 * Draw(s, p) < RandDen
InjectNull(cfg, s, p) == includeNulls(cfg) /\ 10 * Draw(s, p) < RandDen
AfterInjectDraw(cfg, p) == IF includeNulls(cfg) THEN p + 1 ELSE p

RecordFrom(fields, j, record, cfg, zone, s, p) ==
    IF j > Len(fields) THEN Returned(record, p)
    ELSE IF InjectNull(cfg, s, p)
         THEN RecordFrom(fields, j + 1, PropSet(record, fields[j].name, Null),
                         cfg, zone, s, p + 1)
         ELSE LET r == generateValue(fields[j], zone, s, AfterInjectDraw(cfg, p))
              IN  IF r.thrown # "none" THEN r
                  ELSE RecordFrom(fields, j + 1, PropSet(record, fields[j].name, r.v),
                                  cfg, zone, s, r.p)

NewRecord(sch, cfg, zone, s) == RecordFrom(sch.fields, 1, EmptyObject, cfg, zone, s, 1)

(***************************************************************************)
(* The inputs: schemas, configurations, the server's time zone and the     *)
(* state of Math.random().                                                 *)
(***************************************************************************)
Field(name, type, c, ns) ==
    [name |-> name, type |-> type, constraints |-> c, nestedSchema |-> ns]

NoConstraints == <<>>

\* A constraint that is not declared, or declared with one of vals.
Opt(key, vals) == {NoConstraints} \cup {[x \in {key} |-> v] : v \in vals}

StringConstraints ==
    {a @@ b : a \in Opt("minLength", {0, 12, 25}), b \in Opt("maxLength", {0, 3, 15})}
NumberRanges ==
    {a @@ b : a \in Opt("min", {-5, 0, 5}), b \in Opt("max", {-10, 0, 10})}
NumberConstraints ==
    NumberRanges
    \cup {c @@ [decimal |-> 1] : c \in {c \in NumberRanges : Has(c, "min") /\ Has(c, "max")}}
    \cup {[decimal |-> 101], [decimal |-> -1]}
PriceConstraints ==
    {a @@ b : a \in Opt("min", {0, 100, 300}), b \in Opt("max", {0, 200})}
DateRanges ==
    {a @@ b : a \in Opt("startDate", {"2020-01-02", "2020-01-04", "not-a-date"}),
              b \in Opt("endDate", {"2020-01-03", "tomorrow"})}
DateConstraints ==
    DateRanges
    \cup {[format |-> "YYYY-MM-DD"], [format |-> "YYYY-MM-DD", endDate |-> "2020-01-03"]}
    \cup {[format |-> fmt, startDate |-> "2020-01-02", endDate |-> "2020-01-03"] :
            fmt \in {"YYYY-MM-DD", ""}}
ParagraphConstraints == Opt("minWords", {0, 5, 25})
ArrayConstraints ==
    {a @@ b : a \in Opt("minItems", {-2, 0, 2}), b \in Opt("maxItems", {-3, 0, 2, 3})}

\* Type tags outside DataType: an unknown tag and a field with no type at all.
UnknownTypes == {"color", "undefined"}

\* The fields nested in objects and arrays.
Leaf(name, type) == Field(name, type, NoConstraints, NoNested)
Inner == Field("tags", "array", [minItems |-> 1, maxItems |-> 1],
               NestedList(<<Leaf("tag", "boolean")>>))
OneItem == NestedList(<<Leaf("x", "number")>>)
ProtoPair == NestedList(<<Leaf("a", "boolean"), Leaf("__proto__", "boolean")>>)
Deep == NestedList(<<Leaf("a", "boolean"),
                     Field("o", "object", NoConstraints,
                           NestedList(<<Leaf("b", "number"), Leaf("c", "string")>>))>>)
NestedSchemas ==
    { NoNested, EmptyList, NestedNonList, OneItem, ProtoPair, Deep,
      NestedList(<<Leaf("x", "color")>>),
      NestedList(<<Leaf("a", "boolean"), Leaf("b", "undefined")>>),
      NestedList(<<Leaf("1", "boolean"), Inner>>) }

\* The constraints that belong to a type (the groups of FieldConstraints).
OwnConstraintKeys(type) ==
    CASE type = "string" -> {"minLength", "maxLength"}
      [] type = "paragraph" -> {"minWords", "maxWords"}
      [] type \in {"number", "price"} -> {"min", "max", "decimal"}
      [] type = "array" -> {"minItems", "maxItems", "itemType"}
      [] type = "date" -> {"startDate", "endDate", "format"}
      [] OTHER -> {}

Structural(type) == type \in {"object", "array"}

\* One value for every constraint, each of which changes the value or throws
\* when the generator of its own type reads it.
EveryConstraint ==
    [minLength |-> 25, maxLength |-> 3, minWords |-> 25, maxWords |-> 30,
     min |-> 5, max |-> 10, decimal |-> 101,
     minItems |-> 2, maxItems |-> 3, itemType |-> "string",
     startDate |-> "not-a-date", endDate |-> "2020-01-03", format |-> "YYYY-MM-DD"]

Only(c, keys) == [key \in DOMAIN c \cap keys |-> c[key]]

\* The field without the constraints of other types and, for a type that is
\* not structural, without nestedSchema.
Strip(f) ==
    [f EXCEPT !.constraints = Only(f.constraints, OwnConstraintKeys(f.type)),
              !.nestedSchema = IF Structural(f.type) THEN @ ELSE NoNested]

\* The field with every constraint of the other types and, for a type that is
\* not structural, with a nestedSchema.
Decorate(f) ==
    [f EXCEPT !.constraints =
                  Only(f.constraints, OwnConstraintKeys(f.type))
                  @@ Only(EveryConstraint, DOMAIN EveryConstraint \ OwnConstraintKeys(f.type)),
              !.nestedSchema = IF Structural(f.type) THEN @ ELSE ProtoPair]

DecoratedFields ==
    {Decorate(Leaf("value", ty)) : ty \in DataType}
    \cup {Decorate(Field("value", "string", [minLength |-> 25], NoNested)),
          Decorate(Field("value", "number", [min |-> -5, max |-> 10, decimal |-> 1], NestedNonList)),
          Decorate(Field("value", "array", NoConstraints, OneItem)),
          Field("value", "boolean", NoConstraints, NestedNonList)}

\* Every field tried alone in a schema, under the name "value".
RichFields ==
    {Field("value", "string", c, NoNested) : c \in StringConstraints}
    \cup {Field("value", "number", c, NoNested) : c \in NumberConstraints}
    \cup {Field("value", "price", c, NoNested) : c \in PriceConstraints}
    \cup {Field("value", "date", c, NoNested) : c \in DateConstraints}
    \cup {Field("value", "paragraph", c, NoNested) : c \in ParagraphConstraints}
    \cup {Field("value", "array", c, OneItem) : c \in ArrayConstraints}
    \cup {Field("value", "array", c, ns) :
            c \in {NoConstraints, [minItems |-> 2, maxItems |-> 2]}, ns \in NestedSchemas}
    \cup {Field("value", "object", NoConstraints, ns) : ns \in NestedSchemas}
    \cup {Leaf("value", ty) : ty \in DataType \cup UnknownTypes}
    \cup DecoratedFields

\* The fields combined in schemas of several fields: every kind of name, with
\* a value that is a scalar or an object (or null, when injected).
FieldNames == {"id", "1", "__proto__"}
PlainTypes == {"boolean", "object"}
PlainFields == {Leaf(n, ty) : n \in FieldNames, ty \in PlainTypes}

UniqueNames(fields) ==
    \A a, b \in 1..Len(fields) : fields[a].name = fields[b].name => a = b

MaxFields == 2      \* largest number of top-level fields

RECURSIVE SeqsUpTo(_, _)
SeqsUpTo(S, n) ==
    IF n = 0 THEN {<<>>}
    ELSE SeqsUpTo(S, n - 1) \cup {Append(q, e) : q \in SeqsUpTo(S, n - 1), e \in S}

Schemas ==
    {[fields |-> <<f>>] : f \in RichFields}
    \cup {[fields |-> q] : q \in {q \in SeqsUpTo(PlainFields, MaxFields) : UniqueNames(q)}}

Configs ==
    {[recordCount |-> n] @@ o : n \in (-1)..MaxCount, o \in Opt("includeNulls", BOOLEAN)}

\* Configurations with and without a seed, and schemas of one field of every
\* type, of a field that throws and of two fields.
Seeds == {0, 7}
SeedConfigs ==
    {[recordCount |-> MaxCount] @@ sd @@ o :
        sd \in Opt("seed", Seeds), o \in Opt("includeNulls", {TRUE})}
TypedSchemas ==
    {[fields |-> <<Leaf("value", ty)>>] : ty \in DataType \cup UnknownTypes}
    \cup {[fields |-> <<Field("value", "date", [startDate |-> "not-a-date"], NoNested)>>],
          [fields |-> <<Leaf("id", "uuid"), Leaf("ok", "boolean")>>]}

\* Minutes the server's local time is ahead of UTC.
TimeZones == {0, 420}

Generators == [x : 0..(RandDen - 1), d : 0..(RandDen - 1)]

\* As MathRandomStates, but with the generator started from config.seed.
MathRandomSeeded(cfg) ==
    IF Has(cfg, "seed") THEN {[x |-> cfg.seed % RandDen, d |-> 1]} ELSE Generators

\* The states Math.random() can be in when generateMockData(schema, config)
\* starts: nothing in the call seeds it, whatever config holds.
MathRandomStates(cfg) == Generators

(***************************************************************************)
(* generateMockData(schema, config), one step per turn of its loop.        *)
(***************************************************************************)
\* The generator used on its own: no request, and empty tables.
NoRequest == [n |-> 0, phase |-> "idle"]
NoServer ==
    /\ request = NoRequest
    /\ responses = <<>>
    /\ sessions = {}
    /\ revoked = {}
    /\ projects = {}
    /\ handlers = <<>>

Init ==
    /\ schema \in Schemas
    /\ config \in Configs
    /\ tz \in TimeZones
    /\ rng \in MathRandomStates(config)
    /\ data = <<>>
    /\ i = 0
    /\ pc = "loop"
    /\ calls = 1
    /\ NoServer

\* A turn of the loop that completes: data.push(record).
PushRecord ==
    /\ pc = "loop"
    /\ i < config.recordCount
    /\ NewRecord(schema, config, tz, rng).thrown = "none"
    /\ data' = Append(data, NewRecord(schema, config, tz, rng).v)
    /\ rng' = Advance(rng, NewRecord(schema, config, tz, rng).p)
    /\ i' = i + 1
    /\ UNCHANGED <<schema, config, tz, pc, calls, generateVars, storeVars>>

\* A turn of the loop in which generateValue throws: the call ends with the
\* exception and returns nothing.
Throw ==
    /\ pc = "loop"
    /\ i < config.recordCount
    /\ NewRecord(schema, config, tz, rng).thrown # "none"
    /\ rng' = Advance(rng, NewRecord(schema, config, tz, rng).p)
    /\ pc' = "thrown"
    /\ UNCHANGED <<schema, config, tz, data, i, calls, generateVars, storeVars>>

\* The loop is over: return data.
Return ==
    /\ pc = "loop"
    /\ ~(i < config.recordCount)
    /\ pc' = "returned"
    /\ UNCHANGED <<schema, config, tz, rng, data, i, calls, generateVars, storeVars>>

Next == PushRecord \/ Throw \/ Return

Spec == Init /\ [][Next]_vars

\* The calls whose config may hold a seed.
InitSeed ==
    /\ schema \in TypedSchemas
    /\ config \in SeedConfigs
    /\ tz \in TimeZones
    /\ rng \in MathRandomStates(config)
    /\ data = <<>>
    /\ i = 0
    /\ pc = "loop"
    /\ calls = 1
    /\ NoServer

SpecSeed == InitSeed /\ [][Next]_vars

(***************************************************************************)
(* Calls on schema trees: objects and arrays nested MaxDepth levels deep.  *)
(* The call is synchronous, so a turn of its loop that can run does run:   *)
(* weak fairness of Next.                                                  *)
(***************************************************************************)
MaxDepth == 3       \* deepest nesting of objects and arrays

RECURSIVE Chain(_, _, _)
\* A field nested d levels deep, of type ty at the odd levels (counted from
\* the leaf) and of type other at the even ones.
Chain(d, ty, other) ==
    IF d = 0 THEN Leaf("leaf", "boolean")
    ELSE Field("level", ty, NoConstraints, NestedList(<<Chain(d - 1, other, ty)>>))

RECURSIVE Tree(_)
\* An object of two fields at every level: a subtree and an array of subtrees.
Tree(d) ==
    IF d = 0 THEN Leaf("leaf", "number")
    ELSE Field("node", "object", NoConstraints,
               NestedList(<<Tree(d - 1),
                            Field("list", "array", [minItems |-> 2, maxItems |-> 2],
                                  NestedList(<<Tree(d - 1)>>))>>))

\* An object two levels down whose nestedSchema is not a list.
BrokenTree ==
    Field("level", "object", NoConstraints,
          NestedList(<<Field("level", "object", NoConstraints, NestedNonList)>>))

DeepSchemas ==
    {[fields |-> <<f>>] :
        f \in {Chain(d, ty, other) : d \in 1..MaxDepth, ty \in {"object", "array"},
                                      other \in {"object", "array"}}
               \cup {Tree(d) : d \in 1..MaxDepth} \cup {BrokenTree}}

DeepConfigs == {[recordCount |-> n] : n \in 0..MaxCount}

InitDeep ==
    /\ schema \in DeepSchemas
    /\ config \in DeepConfigs
    /\ tz \in TimeZones
    /\ rng \in MathRandomStates(config)
    /\ data = <<>>
    /\ i = 0
    /\ pc = "loop"
    /\ calls = 1
    /\ NoServer

SpecDeep == InitDeep /\ [][Next]_vars /\ WF_vars(Next)

(***************************************************************************)
(* POST /api/generate.  The handler parses the body, calls                 *)
(* mockService.generateMockData and answers; everything it does runs in a  *)
(* try block whose catch answers 500.  After `await req.json()` the        *)
(* handler runs to its response without suspending, so the calls of two    *)
(* requests never overlap.  pc = "thrown" is an exception on its way to    *)
(* the catch, whether req.json() or the generator threw it.                *)
(***************************************************************************)
MaxRequests == 2    \* largest number of requests to POST /api/generate

\* The bodies: not JSON, {schema, config}, and {schema} (config undefined).
GenerateSchemas ==
    {[fields |-> <<Leaf("id", "uuid"), Leaf("ok", "boolean")>>],
     [fields |-> <<Field("value", "array", NoConstraints, OneItem)>>],
     [fields |-> <<Field("value", "date", [startDate |-> "not-a-date"], NoNested)>>]}
GenerateConfigs == {[recordCount |-> n] : n \in (-1)..MaxCount}
GenerateBodies ==
    {[json |-> FALSE]}
    \cup {[json |-> TRUE, schema |-> [fields |-> <<Leaf("id", "uuid"), Leaf("ok", "boolean")>>]]}
    \cup {[json |-> TRUE, schema |-> sch, config |-> cfg] :
            sch \in GenerateSchemas, cfg \in GenerateConfigs}

\* Whether the handler gets as far as generateMockData's loop: req.json()
\* parsed the body, and config is not undefined (config.recordCount).
ReachesLoop(body) == body.json /\ Has(body, "config")

GenerationError == [status |-> 500, error |-> "Failed to generate mock data"]

\* As generateResponse, but without the catch: it answers 200 with the
\* records built so far.
generateResponseUncaught(position, mockData) ==
    [status |-> 200, data |-> mockData, count |-> Len(mockData),
     generatedAt |-> toISOString(Now)]

\* The response of the handler: Response.json({data, count, generatedAt}),
\* or the catch's Response.json({error}, {status: 500}).
generateResponse(position, mockData) ==
    IF position = "returned"
    THEN [status |-> 200, data |-> mockData, count |-> Len(mockData),
          generatedAt |-> toISOString(Now)]
    ELSE GenerationError

InitGenerate ==
    /\ schema = [fields |-> <<>>]
    /\ config = [recordCount |-> 0]
    /\ tz \in TimeZones
    /\ rng \in Generators
    /\ data = <<>>
    /\ i = 0
    /\ pc = "idle"
    /\ calls = 0
    /\ request = NoRequest
    /\ responses = <<>>
    /\ sessions = {}
    /\ revoked = {}
    /\ projects = {}
    /\ handlers = <<>>

\* A request arrives: const {schema, config} = await req.json(), then the
\* call of generateMockData up to its loop.
ReceiveGenerate ==
    /\ request.phase \in {"idle", "responded"}
    /\ request.n < MaxRequests
    /\ \E body \in GenerateBodies :
          /\ request' = [n |-> request.n + 1, phase |-> "handling", body |-> body]
          /\ IF ReachesLoop(body)
             THEN schema' = body.schema /\ config' = body.config /\ pc' = "loop"
             ELSE UNCHANGED <<schema, config>> /\ pc' = "thrown"
          /\ calls' = IF body.json THEN calls + 1 ELSE calls
    /\ data' = <<>>
    /\ i' = 0
    /\ UNCHANGED <<tz, rng, responses, storeVars>>

\* The handler answers, from its try block or from its catch.
RespondGenerate ==
    /\ request.phase = "handling"
    /\ pc \in {"returned", "thrown"}
    /\ responses' = Append(responses, generateResponse(pc, data))
    /\ request' = [request EXCEPT !.phase = "responded"]
    /\ UNCHANGED <<generatorVars, storeVars>>

NextGenerate == ReceiveGenerate \/ PushRecord \/ Throw \/ Return \/ RespondGenerate

SpecGenerate == InitGenerate /\ [][NextGenerate]_vars

(***************************************************************************)
(* Several calls, one after the other, on the shared instance mockService. *)
(* generateMockData is synchronous and JavaScript runs one call at a time, *)
(* so the calls of different callers never overlap: a call starts when the *)
(* call before it has returned or thrown, and finds Math.random() in the   *)
(* state that call left.                                                   *)
(***************************************************************************)
MaxCalls == 2       \* largest number of calls on the instance

CallSchemas ==
    {[fields |-> <<Leaf("id", "uuid"), Leaf("ok", "boolean")>>],
     [fields |-> <<Field("value", "array", NoConstraints, OneItem)>>],
     [fields |-> <<Field("value", "date", [startDate |-> "not-a-date"], NoNested)>>]}
CallConfigs == {[recordCount |-> 1], [recordCount |-> MaxCount, includeNulls |-> TRUE]}

\* As NewArray, but keeping one array on the instance and pushing onto it.
SharedArray(previous) == previous

\* const data: any[] = []: the array of a call is new, whatever the call
\* before it built.
NewArray(previous) == <<>>

InitCalls ==
    /\ schema \in CallSchemas
    /\ config \in CallConfigs
    /\ tz \in TimeZones
    /\ rng \in MathRandomStates(config)
    /\ data = <<>>
    /\ i = 0
    /\ pc = "loop"
    /\ calls = 1
    /\ NoServer

\* The next call, by any caller, with its own schema and config.
CallAgain ==
    /\ pc \in {"returned", "thrown"}
    /\ calls < MaxCalls
    /\ schema' \in CallSchemas
    /\ config' \in CallConfigs
    /\ data' = NewArray(data)
    /\ i' = 0
    /\ pc' = "loop"
    /\ calls' = calls + 1
    /\ UNCHANGED <<tz, rng, generateVars, storeVars>>

NextCalls == PushRecord \/ Throw \/ Return \/ CallAgain

SpecCalls == InitCalls /\ [][NextCalls]_vars

(***************************************************************************)
(* The server's tables (src/src/database.ts) and sessions (auth.ts).       *)
(* A session row is [token, user, expired]: expired is the outcome of      *)
(* `expires_at > datetime('now')`.  Tokens are numbered in the order they  *)
(* are issued (randomBytes(32) is taken never to repeat); token 0 is the   *)
(* empty string, and NoHeader a request without `Authorization: Bearer`.   *)
(* A project row is [id, user, name, mockData].                            *)
(***************************************************************************)
MaxTokens == 3      \* largest number of tokens issued
MaxHandlers == 2    \* largest number of requests to the project and mock routes

Users == {1, 2}
NoUser == 0
NoHeader == -1
EmptyToken == 0
Bearers == {NoHeader, EmptyToken} \cup 1..(MaxTokens + 1)

\* The generator at rest, for the specifications of the other routes.
NoGeneration ==
    /\ schema = [fields |-> <<>>]
    /\ config = [recordCount |-> 0]
    /\ tz = 0
    /\ rng = [x |-> 0, d |-> 0]
    /\ data = <<>>
    /\ i = 0
    /\ pc = "idle"
    /\ calls = 0
    /\ request = NoRequest
    /\ responses = <<>>

\* db.getUserByToken: the user of the unexpired row of the token.
getUserByToken(rows, token) ==
    IF \E s \in rows : s.token = token /\ ~s.expired
    THEN (CHOOSE s \in rows : s.token = token /\ ~s.expired).user
    ELSE NoUser

\* AuthManager.validateToken: if (!token) return null.
validateToken(rows, token) ==
    IF token = EmptyToken THEN NoUser ELSE getUserByToken(rows, token)

\* As deleteSession, but deleting every session of the token's user.
deleteSessionsOfUser(rows, token) ==
    {s \in rows : \A o \in rows : o.token = token => s.user # o.user}

\* db.deleteSession: DELETE FROM sessions WHERE token = ?
deleteSession(rows, token) == {s \in rows : s.token # token}

\* The token createSession issues: one never issued before.
FreshToken == 1 + SetMax({s.token : s \in sessions} \cup revoked)

\* POST /api/auth/login with the credentials of user u: createSession.
Login ==
    /\ FreshToken <= MaxTokens
    /\ \E u \in Users :
          sessions' = sessions \cup {[token |-> FreshToken, user |-> u, expired |-> FALSE]}
    /\ UNCHANGED <<generatorVars, generateVars, revoked, projects, handlers>>

\* POST /api/auth/logout with a Bearer header: AuthManager.logout(token).
Logout ==
    /\ \E token \in Bearers \ {NoHeader} :
          /\ sessions' = deleteSession(sessions, token)
          /\ revoked' = revoked \cup {token}
    /\ UNCHANGED <<generatorVars, generateVars, projects, handlers>>

\* Time passes the expires_at of the session of a token.
ExpireToken(token) ==
    /\ \E s \in sessions :
          /\ s.token = token
          /\ ~s.expired
          /\ sessions' = (sessions \ {s}) \cup {[s EXCEPT !.expired = TRUE]}
    /\ UNCHANGED <<generatorVars, generateVars, revoked, projects, handlers>>

Expire == \E s \in sessions : ExpireToken(s.token)

InitSessions ==
    /\ NoGeneration
    /\ sessions = {}
    /\ revoked = {}
    /\ projects = {}
    /\ handlers = <<>>

NextSessions == Login \/ Logout \/ Expire

SpecSessions == InitSessions /\ [][NextSessions]_vars

(***************************************************************************)
(* The project routes and the mock route (src/src/index.tsx).  A handler   *)
(* is an async function: it runs up to an `await`, and the other handlers  *)
(* run before it resumes.  The database calls are synchronous inside, so   *)
(* each read or write of a table happens in the step that makes the call.  *)
(* A handler is [route, method, bearer, id, body, pc, user, project,       *)
(* status, reply]: its request, its position, its locals `user` and        *)
(* `project` (the rows read: none or one) and its response.  valid and     *)
(* owner record what the tables held when the request arrived.             *)
(***************************************************************************)
NoBody == [json |-> FALSE]
Json(fields) == [json |-> TRUE, value |-> fields]
NoReply == <<>>

Undefined == [k |-> "undefined"]
\* !value, for the values a record id takes
Falsy(v) == v \in {Undefined, Null, Num(0, 1), Str("")}
idOf(record) == IF Has(record, "id") THEN record.id ELSE Undefined

\* db.getProjectById(id, userId): `if (userId)` adds AND user_id = ?
getProjectById(rows, id, userId) ==
    {r \in rows : r.id = id /\ (userId = NoUser \/ r.user = userId)}

\* db.getProjectsByUserId
getProjectsByUserId(rows, userId) == {r \in rows : r.user = userId}

\* As Matching, but without `AND user_id = ?`.
MatchingAnyUser(rows, id, userId) == {r \in rows : r.id = id}

\* The rows an UPDATE or DELETE ... WHERE id = ? AND user_id = ? touches.
Matching(rows, id, userId) == {r \in rows : r.id = id /\ r.user = userId}

\* db.updateProject: the table after the UPDATE.
updateProject(rows, id, userId, updates) ==
    {IF r \in Matching(rows, id, userId) THEN updates @@ r ELSE r : r \in rows}

\* db.deleteProject: the table after the DELETE.
deleteProject(rows, id, userId) == rows \ Matching(rows, id, userId)

\* The object stmt.run returns.
RunResult(rows, id, userId) == [changes |-> Cardinality(Matching(rows, id, userId))]

\* if (!updatedProject): updatedProject is the object stmt.run returned, and
\* an object is never falsy.
NotUpdated(result) == FALSE

\* generateId(), for the request numbered n: Date.now() and Math.random()
\* are taken to make it unique.
generateId(n) == "n" \o ToString(n)

\* Date.now().toString(), for the request numbered n: one millisecond apart.
DateNowString(n) == ToString(Now + n)

Handler(route, req, tables) ==
    [route |-> route, method |-> req.method, bearer |-> req.bearer, id |-> req.id,
     body |-> req.body, pc |-> "start", user |-> NoUser, project |-> {},
     status |-> 0, reply |-> NoReply,
     valid |-> validateToken(tables.sessions, req.bearer) # NoUser,
     owner |-> getProjectById(tables.projects, req.id, NoUser) # {}
               /\ getProjectById(tables.projects, req.id,
                                 validateToken(tables.sessions, req.bearer)) # {}
               /\ validateToken(tables.sessions, req.bearer) # NoUser,
     exists |-> getProjectById(tables.projects, req.id, NoUser) # {}]

Tables == [sessions |-> sessions, projects |-> projects]

Done(h, status, reply) == [h EXCEPT !.pc = "done", !.status = status, !.reply = reply]
Pending == {n \in 1..Len(handlers) : handlers[n].pc # "done"}
Step(n, h) == handlers' = [handlers EXCEPT ![n] = h]

Request(method, bearer, id, body) ==
    [method |-> method, bearer |-> bearer, id |-> id, body |-> body]

----------------------------------------------------------------------------
\* /api/projects and /api/projects/:id.  Every handler checks the header and
\* validates the token, then makes its one call of the database.

ProjectRequests ==
    {Request("GET", b, "", NoBody) : b \in {NoHeader, 1, 2, 3}}
    \cup {Request("POST", b, "", Json([name |-> "created"])) : b \in {1, 2}}
    \cup {Request(m, b, id, IF m = "PUT" THEN Json([name |-> "renamed"]) ELSE NoBody) :
            m \in {"GET", "PUT", "DELETE"}, b \in {1, 2}, id \in {"p1", "p0"}}
    \cup {Request("PUT", 1, "p1", NoBody), Request("DELETE", EmptyToken, "p1", NoBody)}

RouteOf(req) == IF req.id = "" THEN "projects" ELSE "project"

\* The handler up to its first await: the header, and validateToken's read.
ProjectsArrive ==
    /\ Len(handlers) < MaxHandlers
    /\ \E req \in ProjectRequests :
          LET h == Handler(RouteOf(req), req, Tables)
          IN  handlers' = Append(handlers,
                  IF req.bearer = NoHeader
                  THEN Done(h, 401, NoReply)
                  ELSE [h EXCEPT !.pc = "act",
                                 !.user = validateToken(sessions, req.bearer)])
    /\ UNCHANGED <<generatorVars, generateVars, sessions, revoked, projects>>

\* The response of the handler and the table it leaves: [h, rows].
ProjectsOutcome(h, n, rows) ==
    IF h.user = NoUser THEN [h |-> Done(h, 401, NoReply), rows |-> rows]
    ELSE IF h.route = "projects" /\ h.method = "GET"
    THEN [h |-> Done(h, 200, getProjectsByUserId(rows, h.user)), rows |-> rows]
    ELSE IF h.route = "projects"
    THEN [h |-> Done(h, 201, NoReply),
          rows |-> rows \cup {[id |-> generateId(n), user |-> h.user,
                               name |-> h.body.value.name, mockData |-> <<>>]}]
    ELSE IF h.method = "GET"
    THEN IF getProjectById(rows, h.id, h.user) = {}
         THEN [h |-> Done(h, 404, NoReply), rows |-> rows]
         ELSE [h |-> Done(h, 200, getProjectById(rows, h.id, h.user)), rows |-> rows]
    ELSE IF h.method = "PUT"
    THEN IF ~h.body.json
         THEN [h |-> Done(h, 500, NoReply), rows |-> rows]
         ELSE IF NotUpdated(RunResult(rows, h.id, h.user))
              THEN [h |-> Done(h, 404, NoReply),
                    rows |-> updateProject(rows, h.id, h.user, h.body.value)]
              ELSE [h |-> Done(h, 200, RunResult(rows, h.id, h.user)),
                    rows |-> updateProject(rows, h.id, h.user, h.body.value)]
    ELSE IF RunResult(rows, h.id, h.user).changes = 0
         THEN [h |-> Done(h, 404, NoReply), rows |-> rows]
         ELSE [h |-> Done(h, 200, NoReply), rows |-> deleteProject(rows, h.id, h.user)]

\* The handler from its first await on: req.json() where there is a body,
\* the call of the database, the response.
ProjectsAct ==
    /\ \E n \in Pending :
          /\ handlers[n].route \in {"projects", "project"}
          /\ handlers[n].pc = "act"
          /\ Step(n, ProjectsOutcome(handlers[n], n, projects).h)
          /\ projects' = ProjectsOutcome(handlers[n], n, projects).rows
    /\ UNCHANGED <<generatorVars, generateVars, sessions, revoked>>

StoredSessions ==
    {[token |-> 1, user |-> 1, expired |-> FALSE],
     [token |-> 2, user |-> 2, expired |-> FALSE],
     [token |-> 3, user |-> 1, expired |-> TRUE]}

StoredRecords ==
    <<[id |-> Str("a"), v |-> 0], [id |-> Num(0, 1), v |-> 0], [id |-> Str("a"), v |-> 1]>>

StoredProjects ==
    {[id |-> "p1", user |-> 1, name |-> "shop", mockData |-> StoredRecords]}

InitStore ==
    /\ NoGeneration
    /\ sessions = StoredSessions
    /\ revoked = {}
    /\ projects = StoredProjects
    /\ handlers = <<>>

NextProjects == ProjectsArrive \/ ProjectsAct

SpecProjects == InitStore /\ [][NextProjects]_vars

----------------------------------------------------------------------------
\* /api/mock/:projectId/*.

MockRequests ==
    {Request("GET", NoHeader, id, NoBody) : id \in {"p1", "p0"}}
    \cup {Request("POST", b, "p1", Json([v |-> 7])) : b \in {NoHeader, EmptyToken, 1, 2, 3, 4}}
    \cup {Request("PUT", 1, "p1", Json(record)) :
            record \in {[v |-> 9], [id |-> Str("a"), v |-> 9], [id |-> Num(0, 1), v |-> 9]}}
    \cup {Request("PUT", 1, "p1", NoBody)}
    \cup {Request("DELETE", b, "p1", NoBody) : b \in {1, 2}}

\* The handler up to its first await: db.getProjectById(projectId).
MockArrive ==
    /\ Len(handlers) < MaxHandlers
    /\ \E req \in MockRequests :
          handlers' = Append(handlers,
              [Handler("mock", req, Tables) EXCEPT
                  !.pc = "check", !.project = getProjectById(projects, req.id, NoUser)])
    /\ UNCHANGED <<generatorVars, generateVars, sessions, revoked, projects>>

mockDataOf(rows) == (CHOOSE r \in rows : TRUE).mockData

\* From the project read: 404, the GET's response, or the header check and
\* the call of validateToken.
MockCheck ==
    /\ \E n \in Pending :
          LET h == handlers[n]
          IN  /\ h.route = "mock" /\ h.pc = "check"
              /\ Step(n, IF h.project = {} THEN Done(h, 404, NoReply)
                         ELSE IF h.method = "GET" THEN Done(h, 200, mockDataOf(h.project))
                         ELSE IF h.bearer = NoHeader THEN Done(h, 401, NoReply)
                         ELSE [h EXCEPT !.pc = "own",
                                        !.user = validateToken(sessions, h.bearer)])
    /\ UNCHANGED <<generatorVars, generateVars, sessions, revoked, projects>>

\* As ownedProject, but not asking for the user's own project.
anyProject(rows, id, userId) == getProjectById(rows, id, NoUser)

\* Verify ownership: db.getProjectById(projectId, user.id)
ownedProject(rows, id, userId) == getProjectById(rows, id, userId)

\* From the user read: 401, or the ownership read.
MockOwn ==
    /\ \E n \in Pending :
          LET h == handlers[n]
          IN  /\ h.route = "mock" /\ h.pc = "own"
              /\ Step(n, IF h.user = NoUser THEN Done(h, 401, NoReply)
                         ELSE [h EXCEPT !.pc = "again",
                                        !.project = ownedProject(projects, h.id, h.user)])
    /\ UNCHANGED <<generatorVars, generateVars, sessions, revoked, projects>>

\* From the ownership read: 403, or project = userProject and the method's
\* own call of validateToken.
MockAgain ==
    /\ \E n \in Pending :
          LET h == handlers[n]
          IN  /\ h.route = "mock" /\ h.pc = "again"
              /\ Step(n, IF h.project = {} THEN Done(h, 403, NoReply)
                         ELSE [h EXCEPT !.pc = "write",
                                        !.user = validateToken(sessions, h.bearer)])
    /\ UNCHANGED <<generatorVars, generateVars, sessions, revoked, projects>>

\* [...(project.mockData || []), {...newRecord, id: Date.now().toString()}]
appended(mockData, newRecord, n) ==
    Append(mockData, [id |-> Str(DateNowString(n))] @@ newRecord)

\* (project.mockData || []).map(record => record.id === recordId ? updatedRecord : record)
replaced(mockData, updatedRecord) ==
    [j \in 1..Len(mockData) |->
        IF idOf(mockData[j]) = idOf(updatedRecord) THEN updatedRecord ELSE mockData[j]]

\* The response of the method's try block and the mockData it writes:
\* [status, write, mockData].  `user.id` of a user that is null throws.
MockOutcome(h, n) ==
    IF h.method = "POST"
    THEN IF ~h.body.json \/ h.user = NoUser
         THEN [status |-> 400, write |-> FALSE]
         ELSE [status |-> 201, write |-> TRUE,
               mockData |-> appended(mockDataOf(h.project), h.body.value, n)]
    ELSE IF h.method = "PUT"
    THEN IF ~h.body.json \/ Falsy(idOf(h.body.value)) \/ h.user = NoUser
         THEN [status |-> 400, write |-> FALSE]
         ELSE [status |-> 200, write |-> TRUE,
               mockData |-> replaced(mockDataOf(h.project), h.body.value)]
    ELSE IF h.user = NoUser
         THEN [status |-> 500, write |-> FALSE]
         ELSE [status |-> 200, write |-> TRUE, mockData |-> <<>>]

\* From the second user read: req.json(), the new mockData, updateProject
\* and the response (`if (!updatedProject)` never answers 500).
MockWrite ==
    /\ \E n \in Pending :
          LET h == handlers[n]
              o == MockOutcome(h, n)
          IN  /\ h.route = "mock" /\ h.pc = "write"
              /\ Step(n, Done(h, o.status, NoReply))
              /\ projects' = IF o.write
                             THEN updateProject(projects, h.id, h.user,
                                                [mockData |-> o.mockData])
                             ELSE projects
    /\ UNCHANGED <<generatorVars, generateVars, sessions, revoked>>

\* The token of a request expires between the handler's two calls of
\* validateToken.  (A token that expired before the first call is token 3.)
MockExpire ==
    \E n \in Pending :
        /\ handlers[n].route = "mock" /\ handlers[n].pc = "again"
        /\ ExpireToken(handlers[n].bearer)

NextMock == MockArrive \/ MockCheck \/ MockOwn \/ MockAgain \/ MockWrite \/ MockExpire

SpecMock == InitStore /\ [][NextMock]_vars

(***************************************************************************)
(* Reading the state.                                                      *)
(***************************************************************************)
Records == {data[n] : n \in 1..Len(data)}
TopFields == {schema.fields[j] : j \in 1..Len(schema.fields)}
KeySet(obj) == {obj.keys[j] : j \in 1..Len(obj.keys)}
HasOwn(obj, name) == KeyPos(obj, name) # 0
OwnValue(obj, name) == obj.vals[KeyPos(obj, name)]
FieldIndex(name) == CHOOSE j \in 1..Len(schema.fields) : schema.fields[j].name = name
Declared(f, key) == Has(f.constraints, key)

\* The whole call generateMockData(sch, cfg) started with Math.random() in
\* state s, from turn n of its loop with the records acc: what it threw
\* ("none" when it returned) and the array it returned.
RECURSIVE DataFrom(_, _, _, _, _, _)
DataFrom(sch, cfg, zone, s, n, acc) ==
    IF ~(n < cfg.recordCount) THEN [thrown |-> "none", data |-> acc]
    ELSE LET r == NewRecord(sch, cfg, zone, s)
         IN  IF r.thrown # "none" THEN [thrown |-> r.thrown, data |-> <<>>]
             ELSE DataFrom(sch, cfg, zone, Advance(s, r.p), n + 1, Append(acc, r.v))

generateMockData(sch, cfg, zone, s) == DataFrom(sch, cfg, zone, s, 0, <<>>)

\* Everything a call can end with, over the states Math.random() can be in.
Outcomes(sch, cfg, zone) == {generateMockData(sch, cfg, zone, s) : s \in MathRandomStates(cfg)}

\* What the call of the current state ended with: a call that threw returned
\* no array.
Outcome ==
    IF pc = "thrown" THEN [thrown |-> "thrown", data |-> <<>>]
    ELSE [thrown |-> "none", data |-> data]
Ended(o) == [o EXCEPT !.thrown = IF @ = "none" THEN "none" ELSE "thrown"]

\* Whether the call can end with o, for some state of Math.random().
CanEndWith(sch, cfg, zone, o) ==
    \E s \in MathRandomStates(cfg) : Ended(generateMockData(sch, cfg, zone, s)) = o

\* The values generateValue can return for a field, over every state of
\* Math.random().
SynthValues(f) ==
    {generateValue(f, tz, s, 1).v :
        s \in {s \in Generators : generateValue(f, tz, s, 1).thrown = "none"}}

\* v \in SynthValues(f), stopping at the first state of Math.random() that
\* gives v.
IsSynthValue(f, v) ==
    \E s \in Generators :
        LET r == generateValue(f, tz, s, 1) IN r.thrown = "none" /\ r.v = v

(***************************************************************************)
(* C1.  For every schema and every integer recordCount N, the call returns *)
(* an array of exactly N records when N >= 0 and the empty array when      *)
(* N <= 0: it ends by returning, never by throwing, and the array returned *)
(* has max(0, N) records.                                                  *)
(***************************************************************************)
C1_ReturnsExactlyNRecords ==
    pc # "loop" => pc = "returned" /\ Len(data) = Max(0, config.recordCount)

(***************************************************************************)
(* C2.  Every record has exactly the key set {f.name : f in schema.fields} *)
(* for every choice of field names: no key is omitted or added.            *)
(***************************************************************************)
C2_ExactKeySet ==
    \A r \in Records : KeySet(r) = {f.name : f \in TopFields}

(***************************************************************************)
(* C3.  In every record the keys appear in the order of their fields in    *)
(* schema.fields: a key of an earlier field is never listed after a key of *)
(* a later field.                                                          *)
(***************************************************************************)
C3_KeysInFieldOrder ==
    \A r \in Records : \A a, b \in 1..Len(r.keys) :
        a < b => FieldIndex(r.keys[a]) < FieldIndex(r.keys[b])

RECURSIVE UnknownTypesAreNull(_, _)
UnknownTypesAreNull(f, v) ==
    LET nested == NestedOrEmpty(f.nestedSchema)
        InObject(o) == \A j \in 1..Len(nested.fields) :
                          HasOwn(o, nested.fields[j].name) =>
                              UnknownTypesAreNull(nested.fields[j], OwnValue(o, nested.fields[j].name))
    IN  IF f.type \notin DataType THEN v = Null
        ELSE IF f.type = "object" /\ v.k = "object" /\ nested.kind = "list" THEN InObject(v)
        ELSE IF f.type = "array" /\ v.k = "array" /\ nested.kind = "list"
             THEN \A n \in 1..Len(v.items) :
                     IF Len(nested.fields) = 1
                     THEN UnknownTypesAreNull(nested.fields[1], v.items[n])
                     ELSE InObject(v.items[n])
        ELSE TRUE

RECURSIVE OnlyUnknownLeaves(_)
OnlyUnknownLeaves(f) ==
    \/ f.type \notin DataType
    \/ /\ f.type \in {"object", "array"}
       /\ NestedOrEmpty(f.nestedSchema).kind = "list"
       /\ Len(NestedOrEmpty(f.nestedSchema).fields) > 0
       /\ \A j \in 1..Len(f.nestedSchema.fields) : OnlyUnknownLeaves(f.nestedSchema.fields[j])

C5_UnknownTypeYieldsNull ==
    /\ \A r \in Records : \A f \in TopFields :
          HasOwn(r, f.name) => UnknownTypesAreNull(f, OwnValue(r, f.name))
    /\ (TopFields # {} /\ \A f \in TopFields : OnlyUnknownLeaves(f)) => pc # "thrown"

\* A call returned a record whose field is an array of the values of a
\* nested field of unknown type: every item is null.
C5_Witness ==
    /\ pc = "returned"
    /\ \E r \in Records : \E f \in TopFields :
          /\ f.type = "array" /\ OnlyUnknownLeaves(f)
          /\ HasOwn(r, f.name) /\ OwnValue(r, f.name).k = "array"
          /\ Len(OwnValue(r, f.name).items) > 0
          /\ \A n \in 1..Len(OwnValue(r, f.name).items) : OwnValue(r, f.name).items[n] = Null

(***************************************************************************)
(* C6.  generateMockData never raises an error, whatever the constraints   *)
(* and nestedSchema of the fields hold.                                    *)
(***************************************************************************)
C6_NeverThrows == pc # "thrown"

(***************************************************************************)
(* C7.  A field whose declared range is nonsensical (number and price with *)
(* min > max, array with minItems > maxItems, string with                  *)
(* minLength > maxLength, date with startDate after endDate) never makes   *)
(* the call throw, and its value is of the field's type: a number, an      *)
(* array or a string (or the injected null).  The field's other            *)
(* constraints are well-formed: decimal within 0..100, nestedSchema a list.*)
(***************************************************************************)
InvertedPair(f, lo, hi) ==
    Declared(f, lo) /\ Declared(f, hi) /\ f.constraints[lo] > f.constraints[hi]

NonsensicalRange(f) ==
    \/ f.type \in {"number", "price"} /\ InvertedPair(f, "min", "max")
    \/ f.type = "array" /\ InvertedPair(f, "minItems", "maxItems")
    \/ f.type = "string" /\ InvertedPair(f, "minLength", "maxLength")
    \/ /\ f.type = "date" /\ Declared(f, "startDate") /\ Declared(f, "endDate")
       /\ DateParse(f.constraints.startDate).valid /\ DateParse(f.constraints.endDate).valid
       /\ DateParse(f.constraints.startDate).t > DateParse(f.constraints.endDate).t

OtherwiseWellFormed(f) ==
    /\ f.type = "number" /\ Declared(f, "decimal") => ~ToFixedThrows(f.constraints.decimal)
    /\ f.type = "array" => NestedOrEmpty(f.nestedSchema) \in {EmptyList, OneItem}

KindOfType(type) ==
    CASE type \in {"number", "price"} -> "number"
      [] type = "array" -> "array"
      [] type = "object" -> "object"
      [] type = "boolean" -> "boolean"
      [] OTHER -> "string"

C7_NonsensicalRangeNeverCrashes ==
    /\ \A r \in Records : \A f \in TopFields :
          NonsensicalRange(f) /\ OtherwiseWellFormed(f) /\ HasOwn(r, f.name) =>
              \/ OwnValue(r, f.name).k = KindOfType(f.type)
              \/ includeNulls(config) /\ OwnValue(r, f.name) = Null
    /\ (TopFields # {} /\ \A f \in TopFields : NonsensicalRange(f) /\ OtherwiseWellFormed(f))
          => pc # "thrown"

\* A call returned a record for an array field with minItems -2 and maxItems
\* -3, whose item count is negative: the value is the empty array.
C7_Witness ==
    /\ pc = "returned"
    /\ \E r \in Records : \E f \in TopFields :
          /\ f.type = "array" /\ NonsensicalRange(f)
          /\ f.constraints.minItems < 0
          /\ itemCount(f.constraints, 0) < 0
          /\ HasOwn(r, f.name) /\ OwnValue(r, f.name) = Arr(<<>>)

(***************************************************************************)
(* C8.  For a number field with declared integer bounds min <= max, every  *)
(* generated value v (the rational n / d) satisfies min <= v <= max.       *)
(***************************************************************************)
OrderedPair(f, lo, hi) ==
    Declared(f, lo) /\ Declared(f, hi) /\ f.constraints[lo] <= f.constraints[hi]

C8_NumberWithinDeclaredBounds ==
    \A r \in Records : \A f \in TopFields :
        /\ f.type = "number" /\ OrderedPair(f, "min", "max")
        /\ HasOwn(r, f.name) /\ OwnValue(r, f.name).k = "number"
        => /\ f.constraints.min * OwnValue(r, f.name).d <= OwnValue(r, f.name).n
           /\ OwnValue(r, f.name).n <= f.constraints.max * OwnValue(r, f.name).d

(***************************************************************************)
(* C9.  For a price field with declared integer bounds min <= max, every   *)
(* generated value is an integer v with min <= v <= max.                   *)
(***************************************************************************)
C9_PriceWithinDeclaredBounds ==
    \A r \in Records : \A f \in TopFields :
        /\ f.type = "price" /\ OrderedPair(f, "min", "max")
        /\ HasOwn(r, f.name) /\ OwnValue(r, f.name).k = "number"
        => /\ OwnValue(r, f.name).d = 1
           /\ f.constraints.min <= OwnValue(r, f.name).n
           /\ OwnValue(r, f.name).n <= f.constraints.max

(***************************************************************************)
(* C10.  For an array field with declared integer bounds                   *)
(* 0 <= minItems <= maxItems, the length n of every generated array        *)
(* satisfies minItems <= n <= maxItems.                                    *)
(***************************************************************************)
C10_ArrayLengthWithinDeclaredBounds ==
    \A r \in Records : \A f \in TopFields :
        /\ f.type = "array" /\ OrderedPair(f, "minItems", "maxItems")
        /\ f.constraints.minItems >= 0
        /\ HasOwn(r, f.name) /\ OwnValue(r, f.name).k = "array"
        => /\ f.constraints.minItems <= Len(OwnValue(r, f.name).items)
           /\ Len(OwnValue(r, f.name).items) <= f.constraints.maxItems

(***************************************************************************)
(* C11.  For a string field with a declared maxLength L >= 0, every        *)
(* generated value has length <= L.                                        *)
(***************************************************************************)
C11_StringWithinMaxLength ==
    \A r \in Records : \A f \in TopFields :
        /\ f.type = "string" /\ Declared(f, "maxLength") /\ f.constraints.maxLength >= 0
        /\ HasOwn(r, f.name) /\ OwnValue(r, f.name).k = "string"
        => Len(OwnValue(r, f.name).s) <= f.constraints.maxLength

(***************************************************************************)
(* C12.  For a string field with a declared minLength M and no maxLength,  *)
(* every generated value has length >= M and is one of the phrases         *)
(* "adjective noun", unchanged when the phrase has length >= M and         *)
(* followed by M - length filler characters "x" otherwise.                 *)
(***************************************************************************)
Phrases ==
    {adjectives[a] \o " " \o nouns[n] : a \in 1..Len(adjectives), n \in 1..Len(nouns)}

PaddedTo(phrase, M) ==
    IF Len(phrase) >= M THEN phrase ELSE phrase \o Repeat("x", M - Len(phrase))

C12_StringPaddedToMinLength ==
    \A r \in Records : \A f \in TopFields :
        /\ f.type = "string" /\ Declared(f, "minLength") /\ ~Declared(f, "maxLength")
        /\ HasOwn(r, f.name) /\ OwnValue(r, f.name).k = "string"
        => /\ Len(OwnValue(r, f.name).s) >= f.constraints.minLength
           /\ \E phrase \in Phrases :
                 OwnValue(r, f.name).s = PaddedTo(phrase, f.constraints.minLength)

\* A call returned two records of a string field with minLength 25 and no
\* maxLength: both values are phrases padded to 25 characters, and they differ.
C12_Witness ==
    /\ pc = "returned"
    /\ Len(data) = 2
    /\ \E f \in TopFields :
          /\ f.type = "string" /\ Declared(f, "minLength") /\ ~Declared(f, "maxLength")
          /\ f.constraints.minLength = 25
          /\ \A n \in 1..2 :
                /\ HasOwn(data[n], f.name) /\ OwnValue(data[n], f.name).k = "string"
                /\ Len(OwnValue(data[n], f.name).s) = 25
                /\ SubSeq(OwnValue(data[n], f.name).s, 25, 25) = "x"
          /\ OwnValue(data[1], f.name) # OwnValue(data[2], f.name)

(***************************************************************************)
(* C13.  Every value generated for a uuid field is a string of 36          *)
(* characters: hyphens at positions 9, 14, 19 and 24, the digit 4 at       *)
(* position 15, one of 8, 9, a, b at position 20, and a lowercase hex      *)
(* digit everywhere else.                                                  *)
(***************************************************************************)
UUIDLength == 36
UUIDHyphens == {9, 14, 19, 24}
UUIDVersionAt == 15
UUIDVariantAt == 20

IsLowerHex(ch) == ch \in {"0", "1", "2", "3", "4", "5", "6", "7", "8", "9",
                          "a", "b", "c", "d", "e", "f"}

MatchesUUIDv4(str) ==
    /\ Len(str) = UUIDLength
    /\ \A j \in 1..UUIDLength :
          LET ch == SubSeq(str, j, j)
          IN  IF j \in UUIDHyphens THEN ch = "-"
              ELSE IF j = UUIDVersionAt THEN ch = "4"
              ELSE IF j = UUIDVariantAt THEN ch \in {"8", "9", "a", "b"}
              ELSE IsLowerHex(ch)

C13_UUIDMatchesV4Pattern ==
    \A r \in Records : \A f \in TopFields :
        f.type = "uuid" /\ HasOwn(r, f.name) /\ OwnValue(r, f.name) # Null
        => OwnValue(r, f.name).k = "string" /\ MatchesUUIDv4(OwnValue(r, f.name).s)

\* A call returned two records of a uuid field that hold different uuids.
C13_Witness ==
    /\ pc = "returned"
    /\ Len(data) = 2
    /\ \E f \in TopFields :
          /\ f.type = "uuid"
          /\ \A n \in 1..2 : HasOwn(data[n], f.name) /\ OwnValue(data[n], f.name).k = "string"
          /\ OwnValue(data[1], f.name) # OwnValue(data[2], f.name)

(***************************************************************************)
(* C14.  Every element of the value of an array field has the shape the    *)
(* size of nestedSchema fixes: with one nested field the element is a      *)
(* value generateValue returns for that field, not wrapped in an object;   *)
(* with two or more nested fields it is an object whose key set is exactly *)
(* the nested fields' names; with an empty or absent nestedSchema it is    *)
(* the empty object.                                                       *)
(***************************************************************************)
NamesOf(fields) == {fields[j].name : j \in 1..Len(fields)}

ElementHasShape(fields, e) ==
    IF Len(fields) = 1 THEN IsSynthValue(fields[1], e)
    ELSE IF Len(fields) = 0 THEN e = EmptyObject
    ELSE e.k = "object" /\ KeySet(e) = NamesOf(fields)

C14_ArrayElementShape ==
    \A r \in Records : \A f \in TopFields :
        /\ f.type = "array" /\ NestedOrEmpty(f.nestedSchema).kind = "list"
        /\ HasOwn(r, f.name) /\ OwnValue(r, f.name).k = "array"
        => \A n \in 1..Len(OwnValue(r, f.name).items) :
              ElementHasShape(NestedOrEmpty(f.nestedSchema).fields, OwnValue(r, f.name).items[n])

(***************************************************************************)
(* C15.  The value of an object field is an object whose key set is        *)
(* exactly the names of the fields of nestedSchema, at every nesting       *)
(* depth: the value under the name of a nested object field is again such  *)
(* an object, and the value under any other nested field is one            *)
(* generateValue returns for it.  An absent or empty nestedSchema gives    *)
(* the empty object.                                                       *)
(***************************************************************************)
RECURSIVE ObjectHasShape(_, _)
ObjectHasShape(fields, v) ==
    /\ v.k = "object"
    /\ KeySet(v) = NamesOf(fields)
    /\ Len(fields) = 0 => v = EmptyObject
    /\ \A j \in 1..Len(fields) :
          HasOwn(v, fields[j].name) =>
              IF fields[j].type = "object" /\ NestedOrEmpty(fields[j].nestedSchema).kind = "list"
              THEN ObjectHasShape(NestedOrEmpty(fields[j].nestedSchema).fields,
                                  OwnValue(v, fields[j].name))
              ELSE IsSynthValue(fields[j], OwnValue(v, fields[j].name))

C15_ObjectKeySetIsNestedNames ==
    \A r \in Records : \A f \in TopFields :
        /\ f.type = "object" /\ NestedOrEmpty(f.nestedSchema).kind = "list"
        /\ HasOwn(r, f.name) /\ OwnValue(r, f.name) # Null
        => ObjectHasShape(NestedOrEmpty(f.nestedSchema).fields, OwnValue(r, f.name))

(***************************************************************************)
(* C16.  For a date field whose startDate and endDate are parseable where  *)
(* declared, with startDate <= endDate (an absent startDate standing for   *)
(* 2020-01-01 and an absent endDate for the generation time): when format  *)
(* is declared, the value is a 10-character YYYY-MM-DD that is the date of *)
(* an instant between startDate and endDate; otherwise it is a full        *)
(* ISO-8601 timestamp of an instant t with startDate <= t <= endDate.      *)
(***************************************************************************)
DefaultStartDate == "2020-01-01"

DigitsAt(str, from, n) == \A j \in from..(from + n - 1) : IsDigit(SubSeq(str, j, j))

RECURSIVE NumberAt(_, _, _)
NumberAt(str, from, n) ==
    IF n = 0 THEN 0
    ELSE 10 * NumberAt(str, from, n - 1) + DigitVal(SubSeq(str, from + n - 1, from + n - 1))

IsIsoDate(str) ==
    /\ Len(str) = 10
    /\ SubSeq(str, 1, 8) \in {"2020-01-", "2019-12-"}
    /\ DigitsAt(str, 9, 2)

IsIsoTimestamp(str) ==
    /\ Len(str) = 24
    /\ IsIsoDate(SubSeq(str, 1, 10))
    /\ SubSeq(str, 11, 11) = "T" /\ DigitsAt(str, 12, 2)
    /\ SubSeq(str, 14, 14) = ":" /\ DigitsAt(str, 15, 2)
    /\ SubSeq(str, 17, 17) = ":" /\ DigitsAt(str, 18, 2)
    /\ SubSeq(str, 20, 20) = "." /\ DigitsAt(str, 21, 3)
    /\ SubSeq(str, 24, 24) = "Z"

\* The instant (ms from 2020-01-01T00:00Z) at which the day YYYY-MM-DD starts.
IsoDayInstant(str) ==
    IF SubSeq(str, 1, 8) = "2020-01-"
    THEN (NumberAt(str, 9, 2) - 1) * MsPerDay
    ELSE (NumberAt(str, 9, 2) - 32) * MsPerDay

IsoInstant(str) ==
    IsoDayInstant(str) + NumberAt(str, 12, 2) * MsPerHour + NumberAt(str, 15, 2) * MsPerMinute
    + NumberAt(str, 18, 2) * 1000 + NumberAt(str, 21, 3)

ClaimedStart(f) ==
    IF Declared(f, "startDate") THEN DateParse(f.constraints.startDate)
    ELSE DateParse(DefaultStartDate)

ClaimedEnd(f) ==
    IF Declared(f, "endDate") THEN DateParse(f.constraints.endDate) ELSE DateAt(Now)

WellFormedDateRange(f) ==
    /\ f.type = "date"
    /\ ClaimedStart(f).valid /\ ClaimedEnd(f).valid
    /\ ClaimedStart(f).t <= ClaimedEnd(f).t

C16_DateWithinRangeAndRendered ==
    \A r \in Records : \A f \in TopFields :
        WellFormedDateRange(f) /\ HasOwn(r, f.name) /\ OwnValue(r, f.name) # Null
        => /\ OwnValue(r, f.name).k = "string"
           /\ IF Declared(f, "format")
              THEN /\ IsIsoDate(OwnValue(r, f.name).s)
                   /\ IsoDayInstant(OwnValue(r, f.name).s) + MsPerDay > ClaimedStart(f).t
                   /\ IsoDayInstant(OwnValue(r, f.name).s) <= ClaimedEnd(f).t
              ELSE /\ IsIsoTimestamp(OwnValue(r, f.name).s)
                   /\ ClaimedStart(f).t <= IsoInstant(OwnValue(r, f.name).s)
                   /\ IsoInstant(OwnValue(r, f.name).s) <= ClaimedEnd(f).t

(***************************************************************************)
(* C17.  The value of a paragraph field is k sentences of the pool of five *)
(* joined by single spaces, repeats allowed, where                         *)
(* k = max(1, floor(minWords / 10)) when minWords is declared (0 and       *)
(* values below 10 included) and k = 3 when it is not.                     *)
(***************************************************************************)
SentencePool == {sentences[j] : j \in 1..Len(sentences)}

RECURSIVE JoinsOf(_)
JoinsOf(k) ==
    IF k <= 1 THEN SentencePool
    ELSE {head \o " " \o last : head \in JoinsOf(k - 1), last \in SentencePool}

ClaimedSentenceCount(f) ==
    IF Declared(f, "minWords") THEN Max(1, f.constraints.minWords \div 10) ELSE 3

C17_ParagraphSentenceCount ==
    \A r \in Records : \A f \in TopFields :
        /\ f.type = "paragraph"
        /\ Declared(f, "minWords") => f.constraints.minWords >= 0
        /\ HasOwn(r, f.name) /\ OwnValue(r, f.name) # Null
        => /\ OwnValue(r, f.name).k = "string"
           /\ OwnValue(r, f.name).s \in JoinsOf(ClaimedSentenceCount(f))

(***************************************************************************)
(* C18.  config.seed is never consumed: whatever a call ended with (the    *)
(* array it returned, or a throw), the call with the same schema and the   *)
(* same config can end with it too when the config's seed is any other     *)
(* seed and when it is absent.  A seed does not make the output unique: a  *)
(* call with a seed, one record or more and a uuid field can return an     *)
(* array other than the one it returned.                                   *)
(***************************************************************************)
WithoutSeed(cfg) == [key \in DOMAIN cfg \ {"seed"} |-> cfg[key]]
WithSeed(cfg, sd) == WithoutSeed(cfg) @@ [seed |-> sd]

C18_SeedNeverConsumed ==
    pc # "loop" =>
        /\ CanEndWith(schema, WithoutSeed(config), tz, Outcome)
        /\ \A sd \in Seeds : CanEndWith(schema, WithSeed(config, sd), tz, Outcome)
        /\ (Has(config, "seed") /\ config.recordCount > 0 /\ \E f \in TopFields : f.type = "uuid")
              => \E o \in Outcomes(schema, config, tz) : Ended(o) # Outcome

\* A call with a seed returned two records, and the same schema and config
\* (the same seed) can return a different array.
C18_Witness ==
    /\ pc = "returned"
    /\ Has(config, "seed")
    /\ Len(data) = 2
    /\ \E o \in Outcomes(schema, config, tz) : o.thrown = "none" /\ o.data # data

(***************************************************************************)
(* C19.  Constraints of other types, and nestedSchema on a type that is    *)
(* not structural, do not influence a field's value and never raise: every *)
(* generated value of a field is one the field can get without them and    *)
(* one it can get with every one of them, and a call on a schema of one    *)
(* field throws only if the field can throw without them and with them.    *)
(***************************************************************************)
CanThrow(f) == \E s \in Generators : generateValue(f, tz, s, 1).thrown # "none"

Decorated(f) == Strip(f) # f

C19_IrrelevantConstraintsIgnored ==
    /\ \A r \in Records : \A f \in TopFields :
          HasOwn(r, f.name) /\ ~(includeNulls(config) /\ OwnValue(r, f.name) = Null)
          => /\ IsSynthValue(Strip(f), OwnValue(r, f.name))
             /\ IsSynthValue(Decorate(f), OwnValue(r, f.name))
    /\ pc = "thrown" /\ Len(schema.fields) = 1
          => CanThrow(Strip(schema.fields[1])) /\ CanThrow(Decorate(schema.fields[1]))

\* A call returned a record of a string field that carries minItems, decimal,
\* an unparseable startDate and a nestedSchema: the value is a phrase.
C19_Witness ==
    /\ pc = "returned"
    /\ \E r \in Records : \E f \in TopFields :
          /\ f.type = "string" /\ Decorated(f)
          /\ Declared(f, "minItems") /\ Declared(f, "decimal") /\ Declared(f, "startDate")
          /\ f.nestedSchema # NoNested
          /\ HasOwn(r, f.name) /\ OwnValue(r, f.name).k = "string"
          /\ OwnValue(r, f.name).s \in Phrases

(***************************************************************************)
(* C20.  generateMockData holds no state across calls and leaves its       *)
(* inputs unchanged: whatever calls were made before it on the shared      *)
(* instance, a call ends with an outcome (the array returned, or a throw)  *)
(* that a call with the same schema and config can end with when nothing   *)
(* was called before it, so its array holds its own records only; and no   *)
(* step of a running call changes the schema or the config passed in.      *)
(***************************************************************************)
OutcomeIsOfOwnInputs == pc # "loop" => CanEndWith(schema, config, tz, Outcome)

InputsUnchanged == pc = "loop" => schema' = schema /\ config' = config

C20_NoStateAcrossCalls == []OutcomeIsOfOwnInputs /\ [][InputsUnchanged]_vars

\* A second call on the instance returned two records, all its own, after a
\* first call that ended.
C20_Witness ==
    /\ calls = 2
    /\ pc = "returned"
    /\ config.recordCount = 2
    /\ Len(data) = 2
    /\ \E f \in TopFields : HasOwn(data[2], f.name) /\ OwnValue(data[2], f.name) # Null

(***************************************************************************)
(* C23.  generateString pads before it truncates: for a string field with  *)
(* both minLength and maxLength declared, minLength > maxLength >= 1 gives *)
(* a value of exactly maxLength characters, and minLength <= maxLength     *)
(* gives a value whose length lies in [minLength, maxLength].              *)
(***************************************************************************)
C23_PadThenTruncate ==
    \A r \in Records : \A f \in TopFields :
        /\ f.type = "string" /\ Declared(f, "minLength") /\ Declared(f, "maxLength")
        /\ HasOwn(r, f.name) /\ OwnValue(r, f.name).k = "string"
        => LET len == Len(OwnValue(r, f.name).s)
               lo == f.constraints.minLength
               hi == f.constraints.maxLength
           IN  /\ lo > hi /\ hi >= 1 => len = hi
               /\ lo <= hi => lo <= len /\ len <= hi

(***************************************************************************)
(* C24.  Null injection applies to top-level fields only: also with        *)
(* includeNulls true, a value nested in an object or in an array element   *)
(* is null only if the type of its own field is not one of DataType.       *)
(***************************************************************************)
RECURSIVE NestedNullsOnlyForUnknownTypes(_, _)
NestedNullsOnlyForUnknownTypes(f, v) ==
    LET nested == NestedOrEmpty(f.nestedSchema)
        Inside(nf, nv) == /\ nv = Null => nf.type \notin DataType
                          /\ NestedNullsOnlyForUnknownTypes(nf, nv)
        InObject(o) == \A j \in 1..Len(nested.fields) :
                          HasOwn(o, nested.fields[j].name) =>
                              Inside(nested.fields[j], OwnValue(o, nested.fields[j].name))
    IN  IF f.type = "object" /\ v.k = "object" /\ nested.kind = "list" THEN InObject(v)
        ELSE IF f.type = "array" /\ v.k = "array" /\ nested.kind = "list"
             THEN \A n \in 1..Len(v.items) :
                     IF Len(nested.fields) = 1
                     THEN Inside(nested.fields[1], v.items[n])
                     ELSE InObject(v.items[n])
        ELSE TRUE

C24_NoNestedNullInjection ==
    \A r \in Records : \A f \in TopFields :
        HasOwn(r, f.name) => NestedNullsOnlyForUnknownTypes(f, OwnValue(r, f.name))

\* With includeNulls true, a call returned two records of an object field
\* with nested fields of recognised types: the first record holds the
\* injected null, the second an object none of whose values is null.
C24_Witness ==
    /\ pc = "returned"
    /\ includeNulls(config)
    /\ Len(data) = 2
    /\ \E f \in TopFields :
          /\ f.type = "object" /\ f.nestedSchema = Deep
          /\ HasOwn(data[1], f.name) /\ OwnValue(data[1], f.name) = Null
          /\ HasOwn(data[2], f.name) /\ OwnValue(data[2], f.name).k = "object"
          /\ \A j \in 1..Len(OwnValue(data[2], f.name).vals) :
                OwnValue(data[2], f.name).vals[j] # Null

(***************************************************************************)
(* C21.  For every schema tree (objects and arrays nested to any depth,    *)
(* every nestedSchema a list) and every recordCount, generateMockData      *)
(* eventually returns; and there is no depth cap: the value of a field     *)
(* nested d levels deep, whose arrays have at least one item, is nested d  *)
(* levels deep.                                                            *)
(***************************************************************************)
RECURSIVE SchemaDepth(_)
SchemaDepth(f) ==
    IF Structural(f.type) /\ NestedOrEmpty(f.nestedSchema).kind = "list"
    THEN 1 + SetMax({SchemaDepth(NestedOrEmpty(f.nestedSchema).fields[j]) :
                        j \in 1..Len(NestedOrEmpty(f.nestedSchema).fields)})
    ELSE 0

RECURSIVE ValueDepth(_)
ValueDepth(v) ==
    IF v.k = "object" THEN 1 + SetMax({ValueDepth(v.vals[j]) : j \in 1..Len(v.vals)})
    ELSE IF v.k = "array" THEN 1 + SetMax({ValueDepth(v.items[j]) : j \in 1..Len(v.items)})
    ELSE 0

RECURSIVE WellFormedTree(_)
WellFormedTree(f) ==
    Structural(f.type) =>
        /\ NestedOrEmpty(f.nestedSchema).kind = "list"
        /\ \A j \in 1..Len(NestedOrEmpty(f.nestedSchema).fields) :
              WellFormedTree(NestedOrEmpty(f.nestedSchema).fields[j])

NestedAsDeepAsSchema ==
    \A r \in Records : \A f \in TopFields :
        WellFormedTree(f) /\ HasOwn(r, f.name) =>
            ValueDepth(OwnValue(r, f.name)) = SchemaDepth(f)

\* The turns of the loop still to run, plus one for the return.
TurnsLeft == IF pc = "loop" THEN Max(config.recordCount - i, 0) + 1 ELSE 0

\* On a schema tree, a turn of the loop that starts completes (the recursion
\* of generateValue ends, and without an exception), so that the call can
\* always take its next step until it has returned.
TurnCompletes ==
    (\A f \in TopFields : WellFormedTree(f)) =>
        /\ pc # "thrown"
        /\ pc = "loop" /\ i < config.recordCount =>
              NewRecord(schema, config, tz, rng).thrown = "none"

\* Termination as a variant: every turn stays within recordCount, every step
\* leaves fewer turns to run, and the steps that can be taken are PushRecord
\* and Return (TurnCompletes), so the call returns after recordCount + 1 steps.
C21_TerminatesWithoutDepthCap ==
    /\ [](TurnCompletes /\ NestedAsDeepAsSchema)
    /\ [][TurnsLeft' < TurnsLeft]_vars

\* A call returned MaxCount records of a field nested MaxDepth levels deep,
\* and the value in the last record is nested MaxDepth levels deep.
C21_Witness ==
    /\ pc = "returned"
    /\ Len(data) = MaxCount
    /\ \E f \in TopFields :
          /\ SchemaDepth(f) = MaxDepth
          /\ f.type = "object"
          /\ HasOwn(data[MaxCount], f.name)
          /\ ValueDepth(OwnValue(data[MaxCount], f.name)) = MaxDepth

(***************************************************************************)
(* C22.  POST /api/generate with a JSON body {schema, config} answers      *)
(* {data, count, generatedAt} with count = data.length =                   *)
(* max(0, config.recordCount); if generation raises, it answers 500 with   *)
(* an error body holding no data; and the server goes on serving: every    *)
(* request handled has its own response, whatever was answered before it.  *)
(***************************************************************************)
Answered == request.phase = "responded"
LastResponse == responses[Len(responses)]

C22_GenerateResponds ==
    Answered =>
        /\ Len(responses) = request.n
        /\ IF pc = "returned"
           THEN /\ DOMAIN LastResponse = {"status", "data", "count", "generatedAt"}
                /\ LastResponse.status = 200
                /\ LastResponse.data = data
                /\ LastResponse.count = Len(LastResponse.data)
                /\ Len(LastResponse.data) = Max(0, request.body.config.recordCount)
                /\ IsIsoTimestamp(LastResponse.generatedAt)
           ELSE /\ DOMAIN LastResponse = {"status", "error"}
                /\ LastResponse.status = 500

\* A request whose generation threw was answered 500, and the request after
\* it was answered 200 with MaxCount records.
C22_Witness ==
    /\ Answered
    /\ Len(responses) = 2
    /\ responses[1] = GenerationError
    /\ responses[2].status = 200
    /\ responses[2].count = MaxCount
    /\ Len(schema.fields) = 2

(***************************************************************************)
(* C25.  The mock route gives public read access and authenticated write   *)
(* access: a GET of an existing project succeeds without a token, and a    *)
(* request of another method to an existing project that has no Bearer     *)
(* header, carries a token that is invalid or expired, or carries the      *)
(* token of a user who does not own the project is answered 401 or 403,    *)
(* and no step of its handler changes the stored mockData.                 *)
(***************************************************************************)
Finished == {n \in 1..Len(handlers) : handlers[n].pc = "done"}

NotAllowed(h) ==
    /\ h.route = "mock"
    /\ h.method # "GET"
    /\ h.exists
    /\ (h.bearer = NoHeader \/ ~h.valid \/ ~h.owner)

ReadsArePublic ==
    \A n \in Finished :
        handlers[n].route = "mock" /\ handlers[n].method = "GET" /\ handlers[n].exists
            => handlers[n].status = 200

WritesAreRefused ==
    \A n \in Finished : NotAllowed(handlers[n]) => handlers[n].status \in {401, 403}

RefusedWritesChangeNothing ==
    \A n \in 1..Len(handlers) :
        NotAllowed(handlers[n]) /\ handlers'[n] # handlers[n] => projects' = projects

StoredMockData(id) == mockDataOf(getProjectById(projects, id, NoUser))

C26_NoAcceptedPostLost ==
    (/\ handlers # <<>>
     /\ \A n \in 1..Len(handlers) :
           /\ handlers[n].route = "mock" /\ handlers[n].method = "POST"
           /\ handlers[n].id = "p1"
           /\ handlers[n].pc = "done" /\ handlers[n].status = 201)
        => Len(StoredMockData("p1")) = Len(StoredRecords) + Len(handlers)

(***************************************************************************)
(* C27.  PUT /api/projects/:id by an authenticated user, for an id that    *)
(* does not exist or is another user's, is answered 404 and changes no     *)
(* stored project.                                                         *)
(***************************************************************************)
PutOfMissingProject(n) ==
    /\ handlers[n].route = "project" /\ handlers[n].method = "PUT"
    /\ handlers[n].pc = "act" /\ handlers'[n].pc = "done"
    /\ handlers[n].user # NoUser
    /\ handlers[n].body.json
    /\ Matching(projects, handlers[n].id, handlers[n].user) = {}

C27_PutOfMissingProjectIs404 ==
    [][\A n \in 1..Len(handlers) :
          PutOfMissingProject(n) => handlers'[n].status = 404 /\ projects' = projects]_vars

(***************************************************************************)
(* C28.  A PUT to the mock route by the owner replaces exactly the stored  *)
(* records whose id equals the body's id with the body, leaving the other  *)
(* records, the count and the order as they were; a body without an id is  *)
(* answered 400 and leaves mockData unchanged.                             *)
(***************************************************************************)
OwnerPutCompletes(n) ==
    /\ handlers[n].route = "mock" /\ handlers[n].method = "PUT"
    /\ handlers[n].pc = "write" /\ handlers'[n].pc = "done"
    /\ handlers[n].user # NoUser
    /\ handlers[n].body.json

ReplacesMatchingOnly(n, before, after) ==
    LET body == handlers[n].body.value
    IN  IF Has(body, "id")
        THEN /\ handlers'[n].status = 200
             /\ Len(after) = Len(before)
             /\ \A j \in 1..Len(before) :
                   after[j] = IF idOf(before[j]) = body.id THEN body ELSE before[j]
        ELSE /\ handlers'[n].status = 400
             /\ after = before

C28_MockPutReplacesMatching ==
    [][\A n \in 1..Len(handlers) :
          OwnerPutCompletes(n) =>
              ReplacesMatchingOnly(n, StoredMockData(handlers[n].id),
                                   StoredMockData(handlers[n].id)')]_vars

(***************************************************************************)
(* C29.  A session token is accepted only between its creation and its     *)
(* logout or expiry: validateToken returns a user only for a token whose   *)
(* row exists and has not expired, never again for a token that was logged *)
(* out, and a logout leaves what every other token validates to as it was. *)
(***************************************************************************)
Tokens == Bearers \ {NoHeader}

AcceptedOnlyWhileStored ==
    \A token \in Tokens :
        validateToken(sessions, token) # NoUser =>
            \E s \in sessions :
                s.token = token /\ ~s.expired /\ s.user = validateToken(sessions, token)

LoggedOutForGood == \A token \in revoked : validateToken(sessions, token) = NoUser

LogoutLeavesOtherTokens ==
    revoked' # revoked =>
        \A token \in Tokens \ (revoked' \ revoked) :
            validateToken(sessions', token) = validateToken(sessions, token)

C29_TokenLifetime ==
    /\ [](AcceptedOnlyWhileStored /\ LoggedOutForGood)
    /\ [][LogoutLeavesOtherTokens]_vars

\* Three tokens were issued: one was logged out, one expired, and the third
\* still validates to its user.
C29_Witness ==
    /\ revoked = {1}
    /\ \E s \in sessions : s.token = 2 /\ s.expired
    /\ validateToken(sessions, 3) \in Users
    /\ validateToken(sessions, 1) = NoUser
    /\ validateToken(sessions, 2) = NoUser

(***************************************************************************)
(* C30.  Projects are isolated per user on /api/projects: a GET returns    *)
(* only rows of the token's user, and no step of a handler changes or      *)
(* removes a row of another user than its token's.                         *)
(***************************************************************************)
TokenUser(h) == validateToken(StoredSessions, h.bearer)
RowsOfOthers(rows, userId) == {r \in rows : r.user # userId}

ReturnsOwnRowsOnly ==
    \A n \in Finished :
        handlers[n].route \in {"projects", "project"} /\ handlers[n].method = "GET"
            => IF handlers[n].status = 200
               THEN /\ TokenUser(handlers[n]) # NoUser
                    /\ \A r \in handlers[n].reply : r.user = TokenUser(handlers[n])
               ELSE handlers[n].reply = NoReply

LeavesRowsOfOthers ==
    \A n \in 1..Len(handlers') :
        n > Len(handlers) \/ handlers'[n] # handlers[n] =>
            RowsOfOthers(projects', TokenUser(handlers'[n]))
                = RowsOfOthers(projects, TokenUser(handlers'[n]))

C30_ProjectsIsolatedPerUser ==
    /\ []ReturnsOwnRowsOnly
    /\ [][LeavesRowsOfOthers]_vars

\* User 2 created a project, and user 1 listed the projects after that and
\* got the one stored project of user 1.
C30_Witness ==
    /\ Len(handlers) = 2
    /\ handlers[1].method = "POST" /\ handlers[1].bearer = 2 /\ handlers[1].status = 201
    /\ handlers[2].route = "projects" /\ handlers[2].method = "GET"
    /\ handlers[2].bearer = 1 /\ handlers[2].status = 200
    /\ handlers[2].reply = StoredProjects
    /\ Cardinality(projects) = 2

=============================================================================
